---- MODULE Spec2Model ----
(***************************************************************************)
(* A model of the analysis core of the code quality analyser (cqia):       *)
(* severity scoring, near-duplicate detection, the dependency graph        *)
(* builder and the orchestration of one analysis run.                      *)
(*                                                                         *)
(* Numbers that are floats in the program are exact rationals here, a pair *)
(* <<numerator, denominator>> with a positive denominator; binary rounding *)
(* is not modelled.                                                        *)
(***************************************************************************)
EXTENDS Integers, Sequences, FiniteSets, TLC

VARIABLES
    \* ---- severity.score_complexity applied to drawn inputs
    sev_pc,        \* "input" | "scored"
    sev_in,        \* [cc1, cc2, warn_at, weight]
    sev_out,       \* <<score of cc1, score of cc2>>
    \* ---- duplication.detect_duplication, one call
    dup_pc,        \* "idle" | "start" | "loop" | "done"
    dup_args,      \* [functions, k, threshold, max_funcs, max_len, time_budget_s]
    dup_fn_list,   \* the candidate pool
    dup_sigs,      \* the shingle set of each candidate
    dup_i,         \* index of the next outer-loop iteration (1-based)
    dup_out,       \* the findings appended so far
    dup_start,     \* clock value read on entry
    dup_clock,     \* the wall clock
    dup_timed_out, \* 0, or the iteration whose budget test ended the loop
    \* ---- dependency_graph.build_dep_graph, one call
    dep_pc,        \* "idle" | "edges" | "degrees" | "cycles" | "done"
    dep_edges,     \* the input: a sequence of [src, dst]
    dep_k,         \* index of the next input edge
    dep_G,         \* the DiGraph: [nodes: sequence in insertion order, edges: set of pairs]
    dep_raw_cycles,\* the list being built from nx.simple_cycles(G)
    dep_metrics,   \* [fan_in, fan_out, cycles, top_fan_in, top_fan_out]
    \* ---- the process: the two bindings of the weight mapping, and one
    \* ---- run_analysis call at a time
    severity_DEFAULT_WEIGHTS, \* the global DEFAULT_WEIGHTS of cqia.analysis.severity
    runner_DEFAULT_WEIGHTS,   \* the name DEFAULT_WEIGHTS imported into cqia.analysis.runner
    run_pc,        \* "idle" | "parse" | "security" | "complexity" | "duplication" |
                   \* "testing_docs" | "performance" | "dependencies" | "scoring" |
                   \* "done" | "raised"
    run_args,      \* [metas, rules_warn_at, warn_at, fault]
    run_modules,   \* the ModuleIR list built so far
    run_found,     \* the raw finding list of each detector
    run_dep,       \* the dependency metrics
    run_report,    \* the report returned
    \* ---- one call of a function without side effects on drawn arguments
    fn_pc,         \* "idle" | "input" | "returned"
    fn_in,         \* the arguments
    fn_out         \* the value returned

sevVars == <<sev_pc, sev_in, sev_out>>
dupVars == <<dup_pc, dup_args, dup_fn_list, dup_sigs, dup_i, dup_out, dup_start,
             dup_clock, dup_timed_out>>

depVars == <<dep_pc, dep_edges, dep_k, dep_G, dep_raw_cycles, dep_metrics>>

runVars == <<severity_DEFAULT_WEIGHTS, runner_DEFAULT_WEIGHTS, run_pc, run_args,
             run_modules, run_found, run_dep, run_report>>

fnVars == <<fn_pc, fn_in, fn_out>>

vars == <<sevVars, dupVars, depVars, runVars, fnVars>>

\* what the actions of one component leave unchanged
notSev == <<dupVars, depVars, runVars, fnVars>>
notDup == <<sevVars, depVars, runVars, fnVars>>
notDep == <<sevVars, dupVars, runVars, fnVars>>
notRun == <<sevVars, dupVars, depVars, fnVars>>
notFn == <<sevVars, dupVars, depVars, runVars>>

-----------------------------------------------------------------------------
(* Rational arithmetic                                                     *)

Rat(n, d) == IF d < 0 THEN <<-n, -d>> ELSE <<n, d>>
RZero == <<0, 1>>
ROne == <<1, 1>>
RInt(n) == <<n, 1>>
RLe(a, b) == a[1] * b[2] <= b[1] * a[2]
RLt(a, b) == a[1] * b[2] < b[1] * a[2]
REq(a, b) == a[1] * b[2] = b[1] * a[2]
RMul(a, b) == <<a[1] * b[1], a[2] * b[2]>>
RMax(a, b) == IF RLt(a, b) THEN b ELSE a

-----------------------------------------------------------------------------
(* severity.py                                                             *)

Categories ==
    {"security", "complexity", "duplication", "performance", "documentation", "testing"}

\* severity.py:21-28
DEFAULT_WEIGHTS ==
    [c \in Categories |->
        CASE c = "security" -> <<10, 10>>
          [] c = "complexity" -> <<6, 10>>
          [] c = "duplication" -> <<5, 10>>
          [] c = "performance" -> <<6, 10>>
          [] c = "documentation" -> <<3, 10>>
          [] c = "testing" -> <<7, 10>>]

\* severity.py:39-40
clamp01(x) == IF RLt(x, RZero) THEN RZero ELSE IF RLt(ROne, x) THEN ROne ELSE x

\* the tiers with their lower bounds excluded
to_severity_strict(x) ==
    IF RLt(<<80, 100>>, x) THEN "P0"
    ELSE IF RLt(<<60, 100>>, x) THEN "P1"
    ELSE IF RLt(<<40, 100>>, x) THEN "P2"
    ELSE "P3"

\* severity.py:42-49
to_severity(x) ==
    IF RLe(<<80, 100>>, x) THEN "P0"
    ELSE IF RLe(<<60, 100>>, x) THEN "P1"
    ELSE IF RLe(<<40, 100>>, x) THEN "P2"
    ELSE "P3"

\* severity.py:58-59
score_security(weight) == clamp01(weight)

\* the score with the floor max(0.0, ...) left out
score_complexity_nofloor(cc, weight, warn_at) ==
    clamp01(RMul(Rat(cc - warn_at, warn_at * 2), weight))

\* severity.py:61-63 (warn_at # 0; a zero warn_at divides by zero)
score_complexity(cc, weight, warn_at) ==
    LET norm == RMax(RZero, Rat(cc - warn_at, warn_at * 2))
    IN  clamp01(RMul(norm, weight))

\* severity.py:65-66
score_duplication(sim, weight) == clamp01(RMul(sim, weight))

\* severity.py:68-69
score_performance_base(weight) == clamp01(weight)

\* severity.py:71-72
score_testing_base(weight) == clamp01(weight)

\* severity.py:74-75
score_documentation_base(weight) == clamp01(weight)

\* severity.py:77-78
pick_severity(category, raw) == to_severity(raw)

-----------------------------------------------------------------------------
(* detectors/duplication.py                                                *)
(* A text is a sequence of one-character strings, a token a sequence of    *)
(* characters; the markers ID and NUM are the one-element sequences        *)
(* <<"ID">> and <<"NUM">>.                                                 *)

Letters == {"a", "b", "f", "i", "x", "y", "_"}
Digits == {"0", "1", "2"}
Punct == {"{", "}", "(", ")", "[", "]", ";", ",", ".", "+", "-", "*", "/", "%", "<", ">"}
TwoCharOps == {<<"=", "=">>, <<"!", "=">>, <<"<", "=">>, <<">", "=">>,
               <<"&", "&">>, <<"|", "|">>}

\* the end of the longest run of characters of class cls that starts at p
RECURSIVE RunEnd(_, _, _)
RunEnd(text, p, cls) ==
    IF p < Len(text) /\ text[p + 1] \in cls THEN RunEnd(text, p + 1, cls) ELSE p

\* duplication.py:8 and 11, _TOKEN_RE.findall: at each position the first
\* alternative that matches, a character that starts no token is skipped
RECURSIVE findall(_, _)
findall(text, p) ==
    IF p > Len(text) THEN <<>>
    ELSE IF text[p] \in Letters
         THEN LET e == RunEnd(text, p, Letters \cup Digits)
              IN  <<SubSeq(text, p, e)>> \o findall(text, e + 1)
    ELSE IF text[p] \in Digits
         THEN LET e == RunEnd(text, p, Digits)
              IN  <<SubSeq(text, p, e)>> \o findall(text, e + 1)
    ELSE IF p < Len(text) /\ SubSeq(text, p, p + 1) \in TwoCharOps
         THEN <<SubSeq(text, p, p + 1)>> \o findall(text, p + 2)
    ELSE IF text[p] \in Punct
         THEN <<SubSeq(text, p, p)>> \o findall(text, p + 1)
    ELSE findall(text, p + 1)

\* duplication.py:13-19, one token: isidentifier, isdigit, or kept
normalize_token(t) ==
    IF t[1] \in Letters THEN <<"ID">>
    ELSE IF \A q \in 1..Len(t) : t[q] \in Digits THEN <<"NUM">>
    ELSE t

\* duplication.py:10-20
normalize(text) ==
    LET tokens == findall(text, 1)
    IN  [q \in 1..Len(tokens) |-> normalize_token(tokens[q])]

\* duplication.py:22-25 (k >= 1)
shingles(tokens, k) ==
    IF Len(tokens) < k THEN {}
    ELSE {SubSeq(tokens, q, q + k - 1) : q \in 1..(Len(tokens) - k + 1)}

\* duplication.py:27-32
jaccard(a, b) ==
    IF a = {} /\ b = {} THEN RZero
    ELSE LET inter == Cardinality(a \cap b)
             uni == Cardinality(a \cup b)
         IN  IF uni # 0 THEN <<inter, uni>> ELSE RZero

\* the budget test never true
budget_never_exceeded(now, start, time_budget_s) == FALSE

\* the budget test of duplication.py:65 on the clock value now
budget_exceeded(now, start, time_budget_s) == now - start > time_budget_s

\* duplication.py:54-59, the candidate pool: the length test, the append and
\* the test against max_funcs after every function, appended or not
RECURSIVE candidate_pool(_, _, _, _)
candidate_pool(functions, acc, max_funcs, max_len) ==
    IF functions = <<>> THEN acc
    ELSE LET fn == Head(functions)
             acc2 == IF Len(fn.text) <= max_len THEN Append(acc, fn) ELSE acc
         IN  IF Len(acc2) >= max_funcs THEN acc2
             ELSE candidate_pool(Tail(functions), acc2, max_funcs, max_len)

\* the pair test without the comparison of the two paths
pair_reported_samefile(fi, fj, si, sj, threshold) ==
    /\ fi.lang = fj.lang
    /\ sj # {}
    /\ RLe(threshold, jaccard(si, sj))

\* the pair test with a strict comparison against the threshold
pair_reported_strict(fi, fj, si, sj, threshold) ==
    /\ fi.lang = fj.lang
    /\ sj # {}
    /\ RLt(threshold, jaccard(si, sj))
    /\ fi.path # fj.path

\* duplication.py:71-77, the tests of the inner loop on one pair
pair_reported(fi, fj, si, sj, threshold) ==
    /\ fi.lang = fj.lang
    /\ sj # {}
    /\ RLe(threshold, jaccard(si, sj))
    /\ fi.path # fj.path

\* duplication.py:78-89, the finding of the pair (i, j); "pair" is not a field
\* of DupFinding: it records the two positions in the pool
dup_finding(fn_list, sigs, i, j) ==
    LET fi == fn_list[i]
        fj == fn_list[j]
    IN  [id |-> <<fi.id, fj.id, "dup">>,
         category |-> "duplication",
         files |-> <<fi.path, fj.path>>,
         lines |-> <<<<IF fi.start_line > 0 THEN fi.start_line ELSE 1,
                       IF fi.end_line >= fi.start_line THEN fi.end_line
                       ELSE fi.start_line>>,
                     <<IF fj.start_line > 0 THEN fj.start_line ELSE 1,
                       IF fj.end_line >= fj.start_line THEN fj.end_line
                       ELSE fj.start_line>>>>,
         similarity |-> jaccard(sigs[i], sigs[j]),
         pair |-> <<i, j>>]

\* duplication.py:70-89, the inner loop of iteration i from j on
RECURSIVE inner_loop(_, _, _, _, _)
inner_loop(fn_list, sigs, threshold, i, j) ==
    IF j > Len(fn_list) THEN <<>>
    ELSE (IF pair_reported(fn_list[i], fn_list[j], sigs[i], sigs[j], threshold)
          THEN <<dup_finding(fn_list, sigs, i, j)>>
          ELSE <<>>) \o inner_loop(fn_list, sigs, threshold, i, j + 1)

\* duplication.py:67-89, what one outer iteration appends once its budget
\* test has passed
outer_iteration(fn_list, sigs, threshold, i) ==
    IF sigs[i] = {} THEN <<>>
    ELSE inner_loop(fn_list, sigs, threshold, i, i + 1)

\* duplication.py:44-89 with the budget never exceeded: all iterations from i
RECURSIVE detect_duplication_from(_, _, _, _)
detect_duplication_from(fn_list, sigs, threshold, i) ==
    IF i > Len(fn_list) THEN <<>>
    ELSE outer_iteration(fn_list, sigs, threshold, i)
            \o detect_duplication_from(fn_list, sigs, threshold, i + 1)

\* duplication.py:61
signatures(fn_list, k) == [q \in 1..Len(fn_list) |-> shingles(normalize(fn_list[q].text), k)]

detect_duplication(functions, k, threshold, max_funcs, max_len) ==
    LET fn_list == candidate_pool(functions, <<>>, max_funcs, max_len)
    IN  detect_duplication_from(fn_list, signatures(fn_list, k), threshold, 1)

-----------------------------------------------------------------------------
(* dependency_graph.py                                                     *)
(* A module key is a sequence of one-character strings.                    *)

Whitespace == {" ", "\t", "\n"}

RECURSIVE lstrip(_)
lstrip(s) == IF s # <<>> /\ Head(s) \in Whitespace THEN lstrip(Tail(s)) ELSE s

RECURSIVE rstrip(_)
rstrip(s) ==
    IF s # <<>> /\ s[Len(s)] \in Whitespace THEN rstrip(SubSeq(s, 1, Len(s) - 1)) ELSE s

\* dependency_graph.py:26-27, _id(x).strip()
strip(s) == rstrip(lstrip(s))

SeqRange(q) == {q[x] : x \in 1..Len(q)}

EmptyGraph == [nodes |-> <<>>, edges |-> {}]

add_node(nodes, n) == IF n \in SeqRange(nodes) THEN nodes ELSE Append(nodes, n)

\* the edge entered in both directions, as an undirected graph holds it
add_edge_undirected(G, src, dst) ==
    [nodes |-> add_node(add_node(G.nodes, src), dst),
     edges |-> G.edges \cup {<<src, dst>>, <<dst, src>>}]

\* nx.DiGraph.add_edge: both endpoints become nodes, the edge set gains the pair
add_edge(G, src, dst) ==
    [nodes |-> add_node(add_node(G.nodes, src), dst),
     edges |-> G.edges \cup {<<src, dst>>}]

\* the loop body with the test src == dst left out
insert_edge_selfloops(G, e) ==
    LET src == strip(e.src)
        dst == strip(e.dst)
    IN  IF src = <<>> \/ dst = <<>> THEN G ELSE add_edge(G, src, dst)

\* dependency_graph.py:25-30, the loop body on one input edge
insert_edge(G, e) ==
    LET src == strip(e.src)
        dst == strip(e.dst)
    IN  IF src = <<>> \/ dst = <<>> \/ src = dst THEN G ELSE add_edge(G, src, dst)

in_degree(G, n) == Cardinality({e \in G.edges : e[2] = n})
out_degree(G, n) == Cardinality({e \in G.edges : e[1] = n})

\* dependency_graph.py:31
fan_in_of(G) == [n \in SeqRange(G.nodes) |-> in_degree(G, n)]
\* dependency_graph.py:32
fan_out_of(G) == [n \in SeqRange(G.nodes) |-> out_degree(G, n)]

NodePos(G, n) == CHOOSE x \in 1..Len(G.nodes) : G.nodes[x] = n

\* the simple cycles through path[1] that extend path and pass only through
\* nodes inserted after path[1]; a cycle is listed from its first-inserted node
RECURSIVE cycles_extending(_, _)
cycles_extending(G, path) ==
    LET last == path[Len(path)]
        first == path[1]
        closed == IF <<last, first>> \in G.edges THEN {path} ELSE {}
        nexts == {n \in SeqRange(G.nodes) :
                    /\ <<last, n>> \in G.edges
                    /\ n \notin SeqRange(path)
                    /\ NodePos(G, n) > NodePos(G, first)}
    IN  closed \cup UNION {cycles_extending(G, Append(path, n)) : n \in nexts}

\* the cycles of three nodes and more only, as of an undirected graph
simple_cycles_no_pairs(G) ==
    {c \in UNION {cycles_extending(G, <<n>>) : n \in SeqRange(G.nodes)} : Len(c) > 2}

\* nx.simple_cycles(G): every elementary cycle of G once
simple_cycles(G) == UNION {cycles_extending(G, <<n>>) : n \in SeqRange(G.nodes)}

Take(q, n) == SubSeq(q, 1, IF Len(q) < n THEN Len(q) ELSE n)

\* dependency_graph.py:43, the two truncations
MaxCyclesReported == 10
MaxCycleNodes == 8
truncate_cycles(raw_cycles) ==
    LET kept == Take(raw_cycles, MaxCyclesReported)
    IN  [q \in 1..Len(kept) |-> Take(kept[q], MaxCycleNodes)]

\* sorted(items, key=value, reverse=True): stable, descending; items is a
\* sequence of <<node, value>> in insertion order
RECURSIVE insert_desc(_, _)
insert_desc(sorted, item) ==
    IF sorted = <<>> THEN <<item>>
    ELSE IF Head(sorted)[2] >= item[2] THEN <<Head(sorted)>> \o insert_desc(Tail(sorted), item)
    ELSE <<item>> \o sorted

RECURSIVE sorted_desc(_)
sorted_desc(items) ==
    IF items = <<>> THEN <<>>
    ELSE insert_desc(sorted_desc(SubSeq(items, 1, Len(items) - 1)), items[Len(items)])

TopN == 10
\* dependency_graph.py:38-39
top_list(G, deg) == Take(sorted_desc([x \in 1..Len(G.nodes) |-> <<G.nodes[x], deg[G.nodes[x]]>>]), TopN)

-----------------------------------------------------------------------------
(* Every component starts idle; a specification activates the one it runs. *)

FnIdle ==
    /\ fn_pc = "idle"
    /\ fn_in = <<>>
    /\ fn_out = <<>>

SevIdle ==
    /\ sev_pc = "idle"
    /\ sev_in = [cc1 |-> 0, cc2 |-> 0, warn_at |-> 1, weight |-> <<0, 1>>]
    /\ sev_out = <<<<0, 1>>, <<0, 1>>>>

DupIdle ==
    /\ dup_pc = "idle"
    /\ dup_args = [functions |-> <<>>, k |-> 1, threshold |-> <<0, 1>>,
                   max_funcs |-> 0, max_len |-> 0, time_budget_s |-> 0]
    /\ dup_fn_list = <<>>
    /\ dup_sigs = <<>>
    /\ dup_i = 1
    /\ dup_out = <<>>
    /\ dup_start = 0
    /\ dup_clock = 0
    /\ dup_timed_out = 0

EmptyMetrics ==
    [fan_in |-> <<>>, fan_out |-> <<>>, cycles |-> <<>>, top_fan_in |-> <<>>,
     top_fan_out |-> <<>>]

DepIdle ==
    /\ dep_pc = "idle"
    /\ dep_edges = <<>>
    /\ dep_k = 1
    /\ dep_G = EmptyGraph
    /\ dep_raw_cycles = <<>>
    /\ dep_metrics = EmptyMetrics

NoFindings == [c \in Categories |-> <<>>]

NoReport ==
    [summary |-> [c \in Categories |-> 0], files_analyzed |-> 0,
     functions_analyzed |-> 0, by_language |-> <<0, 0, 0>>, hotspots |-> <<>>,
     findings_scored |-> <<>>, findings_raw |-> NoFindings,
     dep_metrics |-> EmptyMetrics,
     thresholds |-> [warn_at |-> <<>>]]

\* the process after its imports: severity.py:21-28 has bound the global,
\* runner.py:34-38 has copied the reference into the runner's namespace
RunIdle ==
    /\ severity_DEFAULT_WEIGHTS = DEFAULT_WEIGHTS
    /\ runner_DEFAULT_WEIGHTS = DEFAULT_WEIGHTS
    /\ run_pc = "idle"
    /\ run_args = [metas |-> <<>>, rules_warn_at |-> <<>>, warn_at |-> <<>>,
                   fault |-> "none"]
    /\ run_modules = <<>>
    /\ run_found = NoFindings
    /\ run_dep = EmptyMetrics
    /\ run_report = NoReport

-----------------------------------------------------------------------------
(* score_complexity on drawn inputs                                        *)

MaxCC == 8
MaxWarn == 2

\* weights override_weights accepts: any int or float, also negative or above 1
SevWeights == {<<-5, 10>>, <<0, 10>>, <<3, 10>>, <<6, 10>>, <<10, 10>>, <<15, 10>>}

SevInputs ==
    [cc1 : 0..MaxCC, cc2 : 0..MaxCC, warn_at : 1..MaxWarn, weight : SevWeights]

SevInit ==
    /\ sev_pc = "input"
    /\ sev_in \in SevInputs
    /\ sev_out = <<RZero, RZero>>
    /\ DupIdle
    /\ DepIdle
    /\ RunIdle
    /\ FnIdle

\* two calls of score_complexity with the same weight and threshold
SevScore ==
    /\ sev_pc = "input"
    /\ sev_out' = <<score_complexity(sev_in.cc1, sev_in.weight, sev_in.warn_at),
                    score_complexity(sev_in.cc2, sev_in.weight, sev_in.warn_at)>>
    /\ sev_pc' = "scored"
    /\ UNCHANGED <<sev_in, notSev>>

SevNext == SevScore

SpecSev == SevInit /\ [][SevNext]_vars

-----------------------------------------------------------------------------
(* C9: the complexity score equals clamp01((value - warn_at)/(2*warn_at))  *)
(* times the weight: 0 at value = warn_at, maximal at 3*warn_at and the    *)
(* same for every larger value, never above a weight in [0,1].             *)

ClaimedComplexityScore(cc, weight, warn_at) ==
    RMul(clamp01(Rat(cc - warn_at, warn_at * 2)), weight)

WeightInUnit(w) == RLe(RZero, w) /\ RLe(w, ROne)

C9_ScoreIsClampedNormTimesWeight ==
    (sev_pc = "scored" /\ WeightInUnit(sev_in.weight)) =>
        /\ REq(sev_out[1],
               ClaimedComplexityScore(sev_in.cc1, sev_in.weight, sev_in.warn_at))
        /\ RLe(sev_out[1], sev_in.weight)
        /\ (sev_in.cc1 >= 3 * sev_in.warn_at =>
               REq(sev_out[1],
                   score_complexity(3 * sev_in.warn_at, sev_in.weight, sev_in.warn_at)))

-----------------------------------------------------------------------------
(* detect_duplication on drawn inputs                                      *)

MaxFns == 3
MaxClock == 2

TextA == <<"x", "+", "1", ";">>
TextB == <<"y", "y", "+", "2", "0", ";">>
TextC == <<"x", "+", "1", ";", "x">>
TextD == <<"a", "=", "b">>
TextL == <<"x", "+", "1", ";", "x", "+", "1", ";", "x", "+", "1", ";">>

\* ir.py:15-23, a FunctionIR; span.path, span.start_line and span.end_line are
\* the fields path, start_line, end_line, metrics["complexity_branch_count"]
\* is branch
Fn(path, name, lang, s, e, text, branch) ==
    [id |-> <<path, name, s>>, name |-> name, lang |-> lang, path |-> path,
     start_line |-> s, end_line |-> e, text |-> text, branch |-> branch]

DupCatalogue ==
    { Fn("a.py", "f", "python", 1, 2, TextA, 0),
      Fn("b.py", "g", "python", 1, 2, TextB, 0),
      Fn("a.py", "h", "python", 3, 4, TextB, 0),
      Fn("c.js", "f", "javascript", 1, 2, TextA, 0),
      Fn("b.py", "p", "python", 3, 4, TextC, 0),
      Fn("b.py", "q", "python", 5, 5, TextD, 0),
      Fn("b.py", "r", "python", 6, 9, TextL, 0) }

RECURSIVE SeqsUpTo(_, _)
SeqsUpTo(S, n) ==
    IF n = 0 THEN {<<>>}
    ELSE LET shorter == SeqsUpTo(S, n - 1)
         IN  shorter \cup {Append(q, x) : q \in shorter, x \in S}

DupParams ==
    { [k |-> 2, threshold |-> <<9, 10>>, max_funcs |-> 400, max_len |-> 2000],
      [k |-> 2, threshold |-> <<1, 2>>, max_funcs |-> 400, max_len |-> 5],
      [k |-> 3, threshold |-> <<1, 2>>, max_funcs |-> 2, max_len |-> 2000],
      [k |-> 3, threshold |-> <<2, 3>>, max_funcs |-> 400, max_len |-> 2000],
      [k |-> 1, threshold |-> <<1, 1>>, max_funcs |-> 400, max_len |-> 6] }

DupInit ==
    /\ dup_pc = "start"
    /\ \E fns \in SeqsUpTo(DupCatalogue, MaxFns), p \in DupParams :
          dup_args = [functions |-> fns, k |-> p.k, threshold |-> p.threshold,
                      max_funcs |-> p.max_funcs, max_len |-> p.max_len,
                      time_budget_s |-> 1]
    /\ dup_fn_list = <<>>
    /\ dup_sigs = <<>>
    /\ dup_i = 1
    /\ dup_out = <<>>
    /\ dup_start = 0
    /\ dup_clock = 0
    /\ dup_timed_out = 0
    /\ SevIdle
    /\ DepIdle
    /\ RunIdle
    /\ FnIdle

\* duplication.py:52-63: the clock is read, the pool and the signatures built
DupBegin ==
    /\ dup_pc = "start"
    /\ dup_start' = dup_clock
    /\ dup_fn_list' = candidate_pool(dup_args.functions, <<>>, dup_args.max_funcs,
                                     dup_args.max_len)
    /\ dup_sigs' = signatures(dup_fn_list', dup_args.k)
    /\ dup_out' = <<>>
    /\ dup_i' = 1
    /\ dup_pc' = "loop"
    /\ UNCHANGED <<dup_args, dup_clock, dup_timed_out, notDup>>

\* duplication.py:64-89: one outer iteration. Time has passed since the last
\* reading; the budget test comes first and ends the loop, else the iteration
\* appends its findings.
DupOuter ==
    /\ dup_pc = "loop"
    /\ dup_i <= Len(dup_fn_list)
    /\ \E now \in dup_clock..MaxClock :
          /\ dup_clock' = now
          /\ IF budget_exceeded(now, dup_start, dup_args.time_budget_s)
             THEN /\ dup_timed_out' = dup_i
                  /\ dup_pc' = "done"
                  /\ UNCHANGED <<dup_out, dup_i>>
             ELSE /\ dup_out' = dup_out \o outer_iteration(dup_fn_list, dup_sigs,
                                                           dup_args.threshold, dup_i)
                  /\ dup_i' = dup_i + 1
                  /\ UNCHANGED <<dup_pc, dup_timed_out>>
    /\ UNCHANGED <<dup_args, dup_fn_list, dup_sigs, dup_start, notDup>>

\* duplication.py:64 and 90: the range is exhausted, out is returned
DupReturn ==
    /\ dup_pc = "loop"
    /\ dup_i > Len(dup_fn_list)
    /\ dup_pc' = "done"
    /\ UNCHANGED <<dup_args, dup_fn_list, dup_sigs, dup_i, dup_out, dup_start,
                   dup_clock, dup_timed_out, notDup>>

DupNext == DupBegin \/ DupOuter \/ DupReturn

SpecDup == DupInit /\ [][DupNext]_vars

-----------------------------------------------------------------------------
(* Claims about detect_duplication                                         *)

DupPairs(out) == {out[q].pair : q \in 1..Len(out)}

SimilarPair(i, j) ==
    /\ dup_sigs[i] # {}
    /\ dup_sigs[j] # {}
    /\ RLe(dup_args.threshold, jaccard(dup_sigs[i], dup_sigs[j]))

\* C4: no reported pair has both functions in the same source file, and no
\* reported pair has functions of different languages.
C4_NoSameFileNoCrossLanguage ==
    \A q \in 1..Len(dup_out) :
        LET f == dup_out[q]
        IN  /\ f.files[1] # f.files[2]
            /\ dup_fn_list[f.pair[1]].path # dup_fn_list[f.pair[2]].path
            /\ dup_fn_list[f.pair[1]].lang = dup_fn_list[f.pair[2]].lang

\* a finished call whose pool held a near-duplicate pair inside one file and a
\* near-duplicate pair across two languages
C4_Witness ==
    /\ dup_pc = "done"
    /\ dup_timed_out = 0
    /\ \E i, j \in 1..Len(dup_fn_list) :
          i < j /\ SimilarPair(i, j)
          /\ dup_fn_list[i].path = dup_fn_list[j].path
    /\ \E i, j \in 1..Len(dup_fn_list) :
          i < j /\ SimilarPair(i, j)
          /\ dup_fn_list[i].lang # dup_fn_list[j].lang

\* the candidate pool as the claim words it: the first max_funcs input
\* functions whose text length is at most max_len
ClaimedPool ==
    LET short == SelectSeq(dup_args.functions,
                           LAMBDA f : Len(f.text) <= dup_args.max_len)
        n == IF dup_args.max_funcs < Len(short) THEN dup_args.max_funcs ELSE Len(short)
    IN  SubSeq(short, 1, n)

ClaimedPairs ==
    LET pool == ClaimedPool
        sig(q) == shingles(normalize(pool[q].text), dup_args.k)
    IN  {pr \in (1..Len(pool)) \X (1..Len(pool)) :
            /\ pr[1] < pr[2]
            /\ sig(pr[1]) # {}
            /\ sig(pr[2]) # {}
            /\ pool[pr[1]].lang = pool[pr[2]].lang
            /\ pool[pr[1]].path # pool[pr[2]].path
            /\ RLe(dup_args.threshold, jaccard(sig(pr[1]), sig(pr[2])))}

\* C5: with the budget not exceeded, the result holds exactly one finding for
\* each unordered pair of the candidate pool with non-empty shingle sets, the
\* same language, different files and Jaccard >= threshold, and nothing else.
C5_ExactlyTheSimilarPairs ==
    (dup_pc = "done" /\ dup_timed_out = 0) =>
        /\ DupPairs(dup_out) = ClaimedPairs
        /\ Len(dup_out) = Cardinality(ClaimedPairs)
        /\ \A q \in 1..Len(dup_out) :
              LET f == dup_out[q]
                  a == ClaimedPool[f.pair[1]]
                  b == ClaimedPool[f.pair[2]]
              IN  /\ f.id = <<a.id, b.id, "dup">>
                  /\ f.files = <<a.path, b.path>>
                  /\ REq(f.similarity,
                         jaccard(shingles(normalize(a.text), dup_args.k),
                                 shingles(normalize(b.text), dup_args.k)))

\* a finished, unbudgeted call that reported a pair with similarity exactly
\* at the threshold, from an input with a function over max_len or beyond
\* max_funcs
C5_Witness ==
    /\ dup_pc = "done"
    /\ dup_timed_out = 0
    /\ dup_out # <<>>
    /\ \E q \in 1..Len(dup_out) : REq(dup_out[q].similarity, dup_args.threshold)
    /\ Len(dup_fn_list) < Len(dup_args.functions)

IsPrefix(a, b) == Len(a) <= Len(b) /\ a = SubSeq(b, 1, Len(a))

UnbudgetedOut ==
    detect_duplication(dup_args.functions, dup_args.k, dup_args.threshold,
                       dup_args.max_funcs, dup_args.max_len)

\* C6: the elapsed time is tested at the start of every outer iteration (no
\* iteration runs on a clock reading beyond the budget); when the test finds
\* the budget exceeded the call returns at once what it has accumulated, a
\* prefix of the result of an unbudgeted call on the same input.
C6_TimeoutReturnsPrefix ==
    /\ (dup_pc = "loop" /\ dup_i > 1) =>
           dup_clock - dup_start <= dup_args.time_budget_s
    /\ dup_timed_out # 0 =>
           /\ dup_pc = "done"
           /\ dup_clock - dup_start > dup_args.time_budget_s
    /\ dup_pc = "done" => IsPrefix(dup_out, UnbudgetedOut)

\* the budget ran out at a later iteration, after a finding had been appended
\* and before all of them were
C6_Witness ==
    /\ dup_pc = "done"
    /\ dup_timed_out >= 2
    /\ dup_out # <<>>
    /\ Len(dup_out) < Len(UnbudgetedOut)

-----------------------------------------------------------------------------
(* build_dep_graph on drawn inputs                                         *)

MaxDepEdges == 2
MaxRing == 9
MaxComplete == 4

RawKeys == {<<>>, <<" ">>, <<"a">>, <<" ", "a">>, <<"b", " ">>}

DigitChar == <<"0", "1", "2", "3", "4", "5", "6", "7", "8", "9">>
NodeKey(n) == <<"m", DigitChar[(n \div 10) + 1], DigitChar[(n % 10) + 1]>>

DepEdge(src, dst) == [src |-> src, dst |-> dst]

\* the ring 1 -> 2 -> ... -> n -> 1
RingEdges(n) == [x \in 1..n |-> DepEdge(NodeKey(x), NodeKey((x % n) + 1))]

\* the complete directed graph on n nodes, self-edges included in the input
CompleteEdges(n) ==
    [x \in 1..(n * n) |-> DepEdge(NodeKey(((x - 1) \div n) + 1), NodeKey(((x - 1) % n) + 1))]

\* the edges A -> B, B -> C, C -> A in each of their orders
ThreeCycleInputs ==
    { [x \in 1..3 |-> RingEdges(3)[p[x]]] :
        p \in {q \in [1..3 -> 1..3] : \A x, y \in 1..3 : x # y => q[x] # q[y]} }

DepInputs ==
    SeqsUpTo({DepEdge(a, b) : a \in RawKeys, b \in RawKeys}, MaxDepEdges)
        \cup {RingEdges(n) : n \in 2..MaxRing}
        \cup {CompleteEdges(n) : n \in 2..MaxComplete}
        \cup ThreeCycleInputs

DepInit ==
    /\ dep_pc = "edges"
    /\ dep_edges \in DepInputs
    /\ dep_k = 1
    /\ dep_G = EmptyGraph
    /\ dep_raw_cycles = <<>>
    /\ dep_metrics = EmptyMetrics
    /\ SevIdle
    /\ DupIdle
    /\ RunIdle
    /\ FnIdle

\* dependency_graph.py:25-30, one iteration of the loop over the input edges
DepInsertEdge ==
    /\ dep_pc = "edges"
    /\ dep_k <= Len(dep_edges)
    /\ dep_G' = insert_edge(dep_G, dep_edges[dep_k])
    /\ dep_k' = dep_k + 1
    /\ UNCHANGED <<dep_pc, dep_edges, dep_raw_cycles, dep_metrics, notDep>>

\* dependency_graph.py:31-32, the two degree maps
DepDegrees ==
    /\ dep_pc = "edges"
    /\ dep_k > Len(dep_edges)
    /\ dep_metrics' = [dep_metrics EXCEPT !.fan_in = fan_in_of(dep_G),
                                          !.fan_out = fan_out_of(dep_G)]
    /\ dep_pc' = "cycles"
    /\ UNCHANGED <<dep_edges, dep_k, dep_G, dep_raw_cycles, notDep>>

\* dependency_graph.py:35, list(nx.simple_cycles(G)): the generator yields one
\* more elementary cycle and the list takes it. The order in which networkx
\* yields the cycles is not modelled, one fixed order stands for it.
DepCollectCycle ==
    /\ dep_pc = "cycles"
    /\ LET left == simple_cycles(dep_G) \ SeqRange(dep_raw_cycles)
       IN  /\ left # {}
           /\ dep_raw_cycles' = Append(dep_raw_cycles, CHOOSE c \in left : TRUE)
    /\ UNCHANGED <<dep_pc, dep_edges, dep_k, dep_G, dep_metrics, notDep>>

\* dependency_graph.py:38-47, once the generator is exhausted: the top lists,
\* the truncated cycle list, the return
DepFinish ==
    /\ dep_pc = "cycles"
    /\ simple_cycles(dep_G) \ SeqRange(dep_raw_cycles) = {}
    /\ dep_metrics' = [dep_metrics EXCEPT
                          !.cycles = truncate_cycles(dep_raw_cycles),
                          !.top_fan_in = top_list(dep_G, dep_metrics.fan_in),
                          !.top_fan_out = top_list(dep_G, dep_metrics.fan_out)]
    /\ dep_pc' = "done"
    /\ UNCHANGED <<dep_edges, dep_k, dep_G, dep_raw_cycles, notDep>>

DepNext == DepInsertEdge \/ DepDegrees \/ DepCollectCycle \/ DepFinish

SpecDep == DepInit /\ [][DepNext]_vars

-----------------------------------------------------------------------------
(* Claims about build_dep_graph                                            *)

\* the edges the construction rule keeps: both endpoints trimmed and
\* non-empty, the two different
ValidEdges ==
    {<<strip(dep_edges[x].src), strip(dep_edges[x].dst)>> : x \in
        {y \in 1..Len(dep_edges) :
            /\ strip(dep_edges[y].src) # <<>>
            /\ strip(dep_edges[y].dst) # <<>>
            /\ strip(dep_edges[y].src) # strip(dep_edges[y].dst)}}

RECURSIVE SumOver(_, _)
SumOver(f, S) ==
    IF S = {} THEN 0
    ELSE LET x == CHOOSE y \in S : TRUE IN f[x] + SumOver(f, S \ {x})

Trimmed(key) == key # <<>> /\ key[1] \notin Whitespace /\ key[Len(key)] \notin Whitespace

\* C7: no key of fan_in/fan_out is empty, keys are trimmed, self-edges are not
\* counted, duplicate edges count once, both maps have the endpoints of the
\* valid edges as key set, and sum(fan_in) = sum(fan_out) = the number of
\* distinct valid edges.
C7_DegreeMaps ==
    dep_pc = "done" =>
        LET fi == dep_metrics.fan_in
            fo == dep_metrics.fan_out
        IN  /\ DOMAIN fi = DOMAIN fo
            /\ DOMAIN fi = {e[1] : e \in ValidEdges} \cup {e[2] : e \in ValidEdges}
            /\ \A key \in DOMAIN fi : Trimmed(key)
            /\ \A key \in DOMAIN fi :
                  /\ fi[key] = Cardinality({e \in ValidEdges : e[2] = key})
                  /\ fo[key] = Cardinality({e \in ValidEdges : e[1] = key})
            /\ SumOver(fi, DOMAIN fi) = Cardinality(ValidEdges)
            /\ SumOver(fo, DOMAIN fo) = Cardinality(ValidEdges)

\* a finished call whose input held a self-edge after trimming, an edge with
\* an empty endpoint, or the same edge twice, next to a valid edge
C7_Witness ==
    /\ dep_pc = "done"
    /\ Cardinality(ValidEdges) >= 1
    /\ Cardinality(ValidEdges) < Len(dep_edges)
    /\ \E x \in 1..Len(dep_edges) : dep_edges[x].src # strip(dep_edges[x].src)

\* C8: for any input edge list build_dep_graph completes, reporting at most
\* 10 cycles of at most 8 nodes each. The truncations are what keeps the
\* call feasible on a graph with combinatorially many cycles (a complete
\* graph on 20 nodes has more than 10^17), so a completed call has collected
\* no more cycles than it reports.
C8_CyclesBounded ==
    dep_pc = "done" =>
        /\ Len(dep_metrics.cycles) <= MaxCyclesReported
        /\ \A q \in 1..Len(dep_metrics.cycles) :
              Len(dep_metrics.cycles[q]) <= MaxCycleNodes
        /\ Len(dep_raw_cycles) <= MaxCyclesReported

-----------------------------------------------------------------------------
(* The detectors and the orchestrator (runner.py)                          *)
(* A source file is described by what the parsers and scanners find in it: *)
(*   parses       whether ast.parse accepts the text                       *)
(*   functions    the FunctionIR list parse_python extracts                *)
(*   sec_calls    the calls _PySec flags, js_patterns those the text scan  *)
(*   doc_missing  the definitions without docstring, in ast.walk order     *)
(*   perf_sites   the sites _PerfVisitor marks                             *)
(*   test_exists  whether one of expected_test_paths exists on disk        *)
(*   imports      the dotted names imported, each a sequence of parts      *)

\* runner.py:54-59
runner_detect_language(file) ==
    IF file.suffix = ".py" THEN "python"
    ELSE IF file.suffix = ".ts" THEN "typescript"
    ELSE IF file.suffix = ".js" THEN "javascript"
    ELSE "unknown"

\* python_parser.py:24-44, for a text ast.parse accepts
parse_python(file) == [path |-> file.path, lang |-> "python", functions |-> file.functions]

\* ts_parser.py:16-59: every path ends in the fallback module, the import of
\* cqia.vendor.ts_languages fails (the package is not in the repository)
parse_js_ts(file, lang) == [path |-> file.path, lang |-> lang, functions |-> <<>>]

\* runner.py:63-75, one iteration of _parse_modules; python_parser.py:25 has
\* no handler around ast.parse, nor has the loop, so a SyntaxError leaves it
parse_one(file) ==
    LET lang == runner_detect_language(file)
    IN  IF lang = "python"
        THEN IF file.parses
             THEN [raised |-> FALSE, module |-> parse_python(file)]
             ELSE [raised |-> TRUE, module |-> <<>>]
        ELSE IF lang \in {"javascript", "typescript"}
        THEN [raised |-> FALSE, module |-> parse_js_ts(file, lang)]
        ELSE [raised |-> FALSE,
              module |-> [path |-> file.path, lang |-> "unknown", functions |-> <<>>]]

RECURSIVE Flatten(_)
Flatten(seqs) == IF seqs = <<>> THEN <<>> ELSE Head(seqs) \o Flatten(Tail(seqs))

\* runner.py:122-124
all_functions_of(modules) == Flatten([q \in 1..Len(modules) |-> modules[q].functions])

\* security.py:71-78 and 24-69, the findings of one Python file
scan_python_security(file) ==
    IF ~file.parses THEN <<>>
    ELSE [q \in 1..Len(file.sec_calls) |->
            [id |-> <<file.path, file.sec_calls[q].line, "pysec">>,
             category |-> "security", file |-> file.path,
             start_line |-> file.sec_calls[q].line,
             end_line |-> file.sec_calls[q].end_line]]

\* security.py:81-116, the findings of one JavaScript or TypeScript file
scan_js_security(file) ==
    [q \in 1..Len(file.js_patterns) |->
        [id |-> <<file.path, file.js_patterns[q], "jssec">>,
         category |-> "security", file |-> file.path, start_line |-> 1, end_line |-> 1]]

\* runner.py:127-136
security_findings(files) ==
    Flatten([q \in 1..Len(files) |->
        LET lang == runner_detect_language(files[q])
        IN  IF lang = "python" THEN scan_python_security(files[q])
            ELSE IF lang \in {"javascript", "typescript"} THEN scan_js_security(files[q])
            ELSE <<>>])

\* the comparison taken strictly
detect_complexity_strict(functions, warn_at) ==
    LET flagged == SelectSeq(functions, LAMBDA fn : 1 + fn.branch > warn_at)
    IN  [q \in 1..Len(flagged) |->
            [id |-> <<flagged[q].id, "complexity">>, category |-> "complexity",
             file |-> flagged[q].path, start_line |-> flagged[q].start_line,
             end_line |-> flagged[q].end_line, value |-> 1 + flagged[q].branch,
             threshold |-> warn_at]]

\* complexity.py:17-33
detect_complexity(functions, warn_at) ==
    LET flagged == SelectSeq(functions, LAMBDA fn : 1 + fn.branch >= warn_at)
    IN  [q \in 1..Len(flagged) |->
            [id |-> <<flagged[q].id, "complexity">>, category |-> "complexity",
             file |-> flagged[q].path, start_line |-> flagged[q].start_line,
             end_line |-> flagged[q].end_line, value |-> 1 + flagged[q].branch,
             threshold |-> warn_at]]

\* testing_docs.py:21-65
detect_missing_docstrings(file) ==
    IF ~file.parses THEN <<>>
    ELSE [q \in 1..Len(file.doc_missing) |->
            LET d == file.doc_missing[q]
            IN  [id |-> <<file.path, "doc", d.kind, d.name, d.line>>,
                 category |-> "documentation", file |-> file.path,
                 start_line |-> d.line, end_line |-> d.end_line, kind |-> d.kind]]

\* testing_docs.py:104-130
detect_test_gaps(files) ==
    LET src == SelectSeq(files, LAMBDA f :
                   f.suffix = ".py" /\ ~f.test_named /\ ~f.test_exists)
    IN  [q \in 1..Len(src) |->
            [id |-> <<src[q].path, "testgap">>, category |-> "testing",
             file |-> src[q].path, expected_test |-> src[q].stem]]

\* testing_docs.py:133-147; modules and files correspond position by position
run_testing_and_docs(modules, files) ==
    LET py == SelectSeq(files, LAMBDA f : runner_detect_language(f) = "python")
    IN  [docs |-> Flatten([q \in 1..Len(py) |-> detect_missing_docstrings(py[q])]),
         gaps |-> detect_test_gaps(py)]

FileOf(files, path) == CHOOSE f \in SeqRange(files) : f.path = path

\* performance.py:110-124: per function the file is parsed again and every
\* marked site of the file inside the function's span is taken
detect_performance(functions, files) ==
    Flatten([q \in 1..Len(functions) |->
        LET fn == functions[q]
            file == FileOf(files, fn.path)
            inside == SelectSeq(file.perf_sites, LAMBDA st :
                          fn.start_line <= st.line /\ st.line <= fn.end_line)
        IN  IF ~file.parses THEN <<>>
            ELSE [x \in 1..Len(inside) |->
                    [id |-> <<file.path, inside[x].kind, inside[x].line>>,
                     category |-> "performance", file |-> file.path,
                     start_line |-> inside[x].line, end_line |-> inside[x].end_line,
                     kind |-> inside[x].kind]]])

\* str(list of str), the repr of the list: ['a', 'b']
RECURSIVE list_repr_items(_)
list_repr_items(parts) ==
    IF parts = <<>> THEN <<>>
    ELSE <<"'", Head(parts), "'">>
            \o (IF Len(parts) > 1 THEN <<",", " ">> ELSE <<>>)
            \o list_repr_items(Tail(parts))

list_repr(parts) == <<"[">> \o list_repr_items(parts) \o <<"]">>

\* an import statement: the parts of the dotted or slashed name, each part a
\* one-letter name; relative marks a JavaScript source that starts with "."
Import(relative, parts) == [relative |-> relative, parts |-> parts]

\* imports.py:18-36: the key of a Python import is _s() of the list that
\* split(".") returns
py_imports(file) ==
    IF ~file.parses THEN <<>>
    ELSE [q \in 1..Len(file.imports) |-> list_repr(file.imports[q].parts)]

\* imports.py:38-52: a relative source gives its first part that is neither
\* "." nor "..", as a string; any other source the repr of split("/")
js_imports(file) ==
    [q \in 1..Len(file.imports) |->
        IF file.imports[q].relative THEN <<Head(file.imports[q].parts)>>
        ELSE list_repr(file.imports[q].parts)]

\* imports.py:54-64
read_imports(file) ==
    LET lang == runner_detect_language(file)
    IN  IF lang = "python" THEN py_imports(file)
        ELSE IF lang \in {"javascript", "typescript"} THEN js_imports(file)
        ELSE <<>>

\* runner.py:168-172
dep_edges_of(metas) ==
    Flatten([q \in 1..Len(metas) |->
        LET keys == read_imports(metas[q])
        IN  [x \in 1..Len(keys) |-> DepEdge(metas[q].stem, keys[x])]])

RECURSIVE insert_edges(_, _)
insert_edges(G, edges) ==
    IF edges = <<>> THEN G ELSE insert_edges(insert_edge(G, Head(edges)), Tail(edges))

\* the cycle list in the fixed order that stands for the generator's
RECURSIVE cycle_list(_, _)
cycle_list(G, collected) ==
    LET left == simple_cycles(G) \ SeqRange(collected)
    IN  IF left = {} THEN collected
        ELSE cycle_list(G, Append(collected, CHOOSE c \in left : TRUE))

\* dependency_graph.py:23-47 as one call, runner.py:173-180
build_dep_graph(edges) ==
    LET G == insert_edges(EmptyGraph, edges)
    IN  [fan_in |-> fan_in_of(G), fan_out |-> fan_out_of(G),
         cycles |-> truncate_cycles(cycle_list(G, <<>>)),
         top_fan_in |-> top_list(G, fan_in_of(G)),
         top_fan_out |-> top_list(G, fan_out_of(G))]

\* An optional number is <<>> (None) or <<n>>.
None == <<>>
Some(n) == <<n>>
\* x or d, for an optional number x: None and 0 are both false
OrElse(x, d) == IF x = None \/ x = Some(0) THEN d ELSE x[1]

\* runner.py:12-23, on a pair of numbers and on a number
safe_as_int_pair(x) == x[2]
safe_as_int(x) == x

\* runner.py:185-197, on the lines of a DupFinding, a pair of pairs
safe_span(span) == <<safe_as_int_pair(span[1]), safe_as_int_pair(span[2])>>

Max(a, b) == IF a >= b THEN a ELSE b

\* runner.py:215-230, _push; title, why and fix are texts and left out
push(cat, fid, file, s, e, score_val, extra) ==
    [id |-> fid, category |-> cat, severity |-> pick_severity(cat, score_val),
     score |-> score_val, file |-> file, start_line |-> Max(1, s),
     end_line |-> Max(1, e), extra |-> extra]

\* runner.py:232-296 with the mapping w; warn_at is the number run_analysis passes
score_all_findings(found, warn_at, w) ==
    LET sec == found["security"]
        comp == found["complexity"]
        dups == found["duplication"]
        perf == found["performance"]
        docs == found["documentation"]
        gaps == found["testing"]
    IN  [q \in 1..Len(sec) |->
            push("security", sec[q].id, sec[q].file, sec[q].start_line, sec[q].end_line,
                 score_security(w["security"]), <<>>)]
        \o [q \in 1..Len(comp) |->
            LET thr == OrElse(Some(warn_at), comp[q].threshold)
            IN  push("complexity", comp[q].id, comp[q].file, comp[q].start_line,
                     comp[q].end_line,
                     score_complexity(comp[q].value, w["complexity"], thr),
                     [value |-> comp[q].value, threshold |-> thr])]
        \o [q \in 1..Len(dups) |->
            LET span == safe_span(dups[q].lines)
            IN  push("duplication", dups[q].id, dups[q].files[1], span[1], span[2],
                     score_duplication(dups[q].similarity, w["duplication"]),
                     [other_file |-> dups[q].files[2], similarity |-> dups[q].similarity])]
        \o [q \in 1..Len(perf) |->
            push("performance", perf[q].id, perf[q].file, perf[q].start_line,
                 perf[q].end_line, score_performance_base(w["performance"]),
                 [kind |-> perf[q].kind])]
        \o [q \in 1..Len(docs) |->
            push("documentation", docs[q].id, docs[q].file, docs[q].start_line,
                 docs[q].end_line, score_documentation_base(w["documentation"]),
                 [kind |-> docs[q].kind])]
        \o [q \in 1..Len(gaps) |->
            push("testing", gaps[q].id, gaps[q].file, 1, 1,
                 score_testing_base(w["testing"]),
                 [expected_test |-> gaps[q].expected_test])]

\* runner.py:48-52
norm(val, max_val) == IF max_val = 0 THEN RZero ELSE <<val, max_val>>

\* runner.py:325-328, the insertion-ordered map file -> summed complexity
RECURSIVE comp_map_of(_, _)
comp_map_of(comp, acc) ==
    IF comp = <<>> THEN acc
    ELSE LET f == Head(comp)
             at == {x \in 1..Len(acc) : acc[x][1] = f.file}
         IN  comp_map_of(Tail(comp),
                IF at = {} THEN Append(acc, <<f.file, f.value>>)
                ELSE [x \in 1..Len(acc) |->
                        IF x \in at THEN <<acc[x][1], acc[x][2] + f.value>> ELSE acc[x]])

\* max(values, default=d)
MaxOf(S, d) == IF S = {} THEN d ELSE CHOOSE y \in S : \A z \in S : z <= y

\* the paths of the drawn files in the order of their text
PathsInOrder == <<"src/a.py", "src/b.py", "src/bad.py", "src/c.js", "src/n.py">>
PathRank(path) == CHOOSE x \in 1..Len(PathsInOrder) : PathsInOrder[x] = path

\* the sort key without its last component
hotspot_before_nopath(a, b) ==
    IF ~REq(a.score, b.score) THEN RLt(b.score, a.score)
    ELSE IF a.fan_in # b.fan_in THEN a.fan_in > b.fan_in
    ELSE IF a.complexity_sum # b.complexity_sum THEN a.complexity_sum > b.complexity_sum
    ELSE TRUE

\* runner.py:342, the sort key (-score, -fan_in, -complexity, str(r)); with the
\* three numbers equal str(r) orders two entries by their path
hotspot_before(a, b) ==
    IF ~REq(a.score, b.score) THEN RLt(b.score, a.score)
    ELSE IF a.fan_in # b.fan_in THEN a.fan_in > b.fan_in
    ELSE IF a.complexity_sum # b.complexity_sum THEN a.complexity_sum > b.complexity_sum
    ELSE PathRank(a.path) <= PathRank(b.path)

RECURSIVE hotspot_insert(_, _)
hotspot_insert(sorted, h) ==
    IF sorted = <<>> THEN <<h>>
    ELSE IF hotspot_before(Head(sorted), h)
         THEN <<Head(sorted)>> \o hotspot_insert(Tail(sorted), h)
    ELSE <<h>> \o sorted

RECURSIVE hotspot_sort(_)
hotspot_sort(hs) ==
    IF hs = <<>> THEN <<>>
    ELSE hotspot_insert(hotspot_sort(SubSeq(hs, 1, Len(hs) - 1)), hs[Len(hs)])

\* runner.py:325-342
hotspots_of(comp, fan_in, files) ==
    LET comp_map == comp_map_of(comp, <<>>)
        max_comp == MaxOf({comp_map[x][2] : x \in 1..Len(comp_map)}, 0)
        max_fi == MaxOf({fan_in[n] : n \in DOMAIN fan_in}, 0)
    IN  hotspot_sort([x \in 1..Len(comp_map) |->
            LET key == FileOf(files, comp_map[x][1]).stem
                fi_val == IF key \in DOMAIN fan_in THEN fan_in[key] ELSE 0
            IN  [path |-> comp_map[x][1],
                 score |-> RMul(norm(fi_val, IF max_fi = 0 THEN 1 ELSE max_fi),
                                norm(comp_map[x][2], IF max_comp = 0 THEN 1 ELSE max_comp)),
                 fan_in |-> fi_val,
                 complexity_sum |-> comp_map[x][2]]])

CountLang(modules, lang) == Len(SelectSeq(modules, LAMBDA m : m.lang = lang))

\* runner.py:311-318, warn_at after the rules have been consulted
effective_warn_at(args) == IF args.warn_at = None THEN args.rules_warn_at ELSE args.warn_at

\* runner.py:139-140, the threshold of detection
detection_warn_at(args) == IF args.rules_warn_at = None THEN 10 ELSE args.rules_warn_at[1]

\* runner.py:232, w = DEFAULT_WEIGHTS: the name in the runner's namespace
scoring_weights(runner_w, severity_w) == runner_w

\* runner.py:324-410
build_report(args, modules, found, dep, w) ==
    [summary |-> [c \in Categories |-> Len(found[c])],
     files_analyzed |-> Cardinality({modules[q].path : q \in 1..Len(modules)}),
     functions_analyzed |-> Len(all_functions_of(modules)),
     by_language |-> <<CountLang(modules, "python"), CountLang(modules, "javascript"),
                       CountLang(modules, "typescript")>>,
     hotspots |-> hotspots_of(found["complexity"], dep.fan_in, args.metas),
     findings_scored |-> score_all_findings(found, OrElse(effective_warn_at(args), 10), w),
     findings_raw |-> found,
     dep_metrics |-> dep,
     thresholds |-> [warn_at |-> effective_warn_at(args)]]

\* the update applied to the built-in weights in place of the current ones
override_weights_from_defaults(current, new) ==
    IF DOMAIN new = {} THEN current
    ELSE LET numeric == {k \in DOMAIN new : new[k].numeric}
         IN  [k \in DOMAIN DEFAULT_WEIGHTS \cup numeric |->
                 IF k \in numeric THEN new[k].value ELSE DEFAULT_WEIGHTS[k]]

\* severity.py:118-128; new maps category names to [numeric, value]
override_weights(current, new) ==
    IF DOMAIN new = {} THEN current
    ELSE LET numeric == {k \in DOMAIN new : new[k].numeric}
         IN  [k \in DOMAIN current \cup numeric |->
                 IF k \in numeric THEN new[k].value ELSE current[k]]

-----------------------------------------------------------------------------
(* One process: override_weights and run_analysis calls, one at a time     *)

MaxFiles == 3

SrcFile(path, stem, suffix, parses, functions, sec_calls, js_patterns, doc_missing,
        perf_sites, test_exists, imports) ==
    [path |-> path, stem |-> stem, suffix |-> suffix, parses |-> parses,
     functions |-> functions, sec_calls |-> sec_calls, js_patterns |-> js_patterns,
     doc_missing |-> doc_missing, perf_sites |-> perf_sites, test_named |-> FALSE,
     test_exists |-> test_exists, imports |-> imports]

\* two texts of eight tokens that differ in the names and the numbers only
TextF == <<"a", "+", "1", ";", "b", "+", "2", ";">>
TextG == <<"x", "+", "0", ";", "y", "+", "1", "0", ";">>

\* a module without docstring, one function with 12 branches, an eval call and
\* a string concatenation in a loop, no test; it imports b
FileA ==
    SrcFile("src/a.py", <<"a">>, ".py", TRUE,
            <<Fn("src/a.py", "f", "python", 1, 20, TextF, 12)>>,
            <<[line |-> 5, end_line |-> 5]>>, <<>>,
            <<[kind |-> "module", name |-> "", line |-> 1, end_line |-> 1],
              [kind |-> "function", name |-> "f", line |-> 1, end_line |-> 20]>>,
            <<[kind |-> "string_concat_in_loop", line |-> 7, end_line |-> 7]>>,
            FALSE, <<Import(FALSE, <<"b">>)>>)

\* a documented, tested module whose function is a renamed copy of f
FileB ==
    SrcFile("src/b.py", <<"b">>, ".py", TRUE,
            <<Fn("src/b.py", "g", "python", 3, 9, TextG, 9)>>,
            <<>>, <<>>, <<>>, <<>>, TRUE, <<>>)

\* a Python file with a syntax error
FileBad ==
    SrcFile("src/bad.py", <<"b", "a", "d">>, ".py", FALSE,
            <<>>, <<>>, <<>>, <<>>, <<>>, FALSE, <<>>)

\* a JavaScript file that calls eval and imports 'l/i/b' and './b'
FileJs ==
    SrcFile("src/c.js", <<"c">>, ".js", TRUE,
            <<>>, <<>>, <<"eval">>, <<>>, <<>>, FALSE,
            <<Import(FALSE, <<"l", "i", "b">>), Import(TRUE, <<"b">>)>>)

\* a documented, tested module with a function nested in another: line 4
\* reads eval(yaml.load(s)), line 5 opens a file inside a loop of the inner
\* function
TextN == <<"i", "f", "(", "x", ")", ";", "f", "(", "y", ")", ";">>
TextInner == <<"f", "(", "y", ")", ";">>

FileNest ==
    SrcFile("src/n.py", <<"n">>, ".py", TRUE,
            <<Fn("src/n.py", "outer", "python", 1, 10, TextN, 1),
              Fn("src/n.py", "inner", "python", 3, 8, TextInner, 1)>>,
            <<[line |-> 4, end_line |-> 4], [line |-> 4, end_line |-> 4]>>, <<>>, <<>>,
            <<[kind |-> "io_in_loop", line |-> 5, end_line |-> 5]>>,
            TRUE, <<>>)

AllFiles == <<FileA, FileB, FileBad, FileJs, FileNest>>

\* what walk_repo can return: files in the order of their paths
WalkResults ==
    {SelectSeq(AllFiles, LAMBDA f : f.path \in P) :
        P \in {Q \in SUBSET SeqRange(PathsInOrder) : Cardinality(Q) <= MaxFiles}}

Numeric(v) == [numeric |-> TRUE, value |-> v]
NonNumeric == [numeric |-> FALSE, value |-> <<"h", "i", "g", "h">>]

\* arguments of override_weights: None or {}, one weight, a weight above 1
\* next to a non-numeric entry
OverrideArgs ==
    { <<>>,
      [k \in {"security"} |-> Numeric(<<5, 10>>)],
      [k \in {"complexity", "documentation"} |->
          IF k = "complexity" THEN Numeric(<<15, 10>>) ELSE NonNumeric] }

Faults == {"none"} \cup Categories

RunArgs ==
    [metas : WalkResults, rules_warn_at : {None, Some(12)}, warn_at : {None, Some(10)},
     fault : Faults]

RunInit ==
    /\ RunIdle
    /\ SevIdle
    /\ DupIdle
    /\ DepIdle
    /\ FnIdle

\* severity.py:118-128: the global of cqia.analysis.severity is rebound; the
\* name the runner imported keeps the mapping it was bound to
OverrideWeights ==
    /\ run_pc = "idle"
    /\ \E new \in OverrideArgs :
          severity_DEFAULT_WEIGHTS' = override_weights(severity_DEFAULT_WEIGHTS, new)
    /\ UNCHANGED <<runner_DEFAULT_WEIGHTS, run_pc, run_args, run_modules, run_found,
                   run_dep, run_report, notRun>>

\* runner.py:298-322 and 112-119: run_analysis is called, analyze_repository
\* walks the tree and enters _parse_modules
RunStart ==
    /\ run_pc = "idle"
    /\ run_args' \in RunArgs
    /\ run_modules' = <<>>
    /\ run_found' = NoFindings
    /\ run_dep' = EmptyMetrics
    /\ run_report' = NoReport
    /\ run_pc' = IF run_args'.metas = <<>> THEN "security" ELSE "parse"
    /\ UNCHANGED <<severity_DEFAULT_WEIGHTS, runner_DEFAULT_WEIGHTS, notRun>>

\* runner.py:63-75: one file of _parse_modules; an exception of the parser
\* leaves _parse_modules, analyze_repository and run_analysis
RunParse ==
    /\ run_pc = "parse"
    /\ LET r == parse_one(run_args.metas[Len(run_modules) + 1])
       IN  IF r.raised
           THEN /\ run_pc' = "raised"
                /\ UNCHANGED run_modules
           ELSE /\ run_modules' = Append(run_modules, r.module)
                /\ run_pc' = IF Len(run_modules') = Len(run_args.metas)
                             THEN "security" ELSE "parse"
    /\ UNCHANGED <<severity_DEFAULT_WEIGHTS, runner_DEFAULT_WEIGHTS, run_args,
                   run_found, run_dep, run_report, notRun>>

\* the files a security scanner is called for
scanned(files) ==
    SelectSeq(files, LAMBDA f : runner_detect_language(f)
                                   \in {"python", "javascript", "typescript"})

\* a scanner failure taken to strike whether or not a scanner is called
security_stage_eager(fault, files) ==
    IF fault = "security" THEN [raised |-> TRUE, findings |-> <<>>]
    ELSE [raised |-> FALSE, findings |-> security_findings(files)]

\* runner.py:126-136: the loop over the modules stands in no try block; a
\* scanner can raise only where one is called
security_stage(fault, files) ==
    IF fault = "security" /\ scanned(files) # <<>>
    THEN [raised |-> TRUE, findings |-> <<>>]
    ELSE [raised |-> FALSE, findings |-> security_findings(files)]

RunSecurity ==
    /\ run_pc = "security"
    /\ LET r == security_stage(run_args.fault, run_args.metas)
       IN  IF r.raised
           THEN /\ run_pc' = "raised"
                /\ UNCHANGED run_found
           ELSE /\ run_found' = [run_found EXCEPT !["security"] = r.findings]
                /\ run_pc' = "complexity"
    /\ UNCHANGED <<severity_DEFAULT_WEIGHTS, runner_DEFAULT_WEIGHTS, run_args,
                   run_modules, run_dep, run_report, notRun>>

\* runner.py:138-146
RunComplexity ==
    /\ run_pc = "complexity"
    /\ run_found' = [run_found EXCEPT !["complexity"] =
          IF run_args.fault = "complexity" THEN <<>>
          ELSE detect_complexity(all_functions_of(run_modules),
                                 detection_warn_at(run_args))]
    /\ run_pc' = "duplication"
    /\ UNCHANGED <<severity_DEFAULT_WEIGHTS, runner_DEFAULT_WEIGHTS, run_args,
                   run_modules, run_dep, run_report, notRun>>

\* runner.py:148-154, with the defaults k = 7 and threshold = 0.90 of the
\* absent duplication rules; the 8 s budget is not reached on these inputs
RunDuplication ==
    /\ run_pc = "duplication"
    /\ run_found' = [run_found EXCEPT !["duplication"] =
          IF run_args.fault = "duplication" THEN <<>>
          ELSE detect_duplication(all_functions_of(run_modules), 7, <<90, 100>>,
                                  400, 2000)]
    /\ run_pc' = "testing_docs"
    /\ UNCHANGED <<severity_DEFAULT_WEIGHTS, runner_DEFAULT_WEIGHTS, run_args,
                   run_modules, run_dep, run_report, notRun>>

\* runner.py:156-159: one handler around run_testing_and_docs, which runs
\* both detectors (testing_docs.py:133-147)
testing_docs_stage(fault, modules, files) ==
    IF fault \in {"documentation", "testing"} THEN [docs |-> <<>>, gaps |-> <<>>]
    ELSE run_testing_and_docs(modules, files)

RunTestingDocs ==
    /\ run_pc = "testing_docs"
    /\ LET r == testing_docs_stage(run_args.fault, run_modules, run_args.metas)
       IN  run_found' = [run_found EXCEPT !["documentation"] = r.docs,
                                          !["testing"] = r.gaps]
    /\ run_pc' = "performance"
    /\ UNCHANGED <<severity_DEFAULT_WEIGHTS, runner_DEFAULT_WEIGHTS, run_args,
                   run_modules, run_dep, run_report, notRun>>

\* runner.py:161-165
RunPerformance ==
    /\ run_pc = "performance"
    /\ run_found' = [run_found EXCEPT !["performance"] =
          IF run_args.fault = "performance" THEN <<>>
          ELSE detect_performance(all_functions_of(run_modules), run_args.metas)]
    /\ run_pc' = "dependencies"
    /\ UNCHANGED <<severity_DEFAULT_WEIGHTS, runner_DEFAULT_WEIGHTS, run_args,
                   run_modules, run_dep, run_report, notRun>>

\* runner.py:167-182
RunDependencies ==
    /\ run_pc = "dependencies"
    /\ run_dep' = build_dep_graph(dep_edges_of(run_args.metas))
    /\ run_pc' = "scoring"
    /\ UNCHANGED <<severity_DEFAULT_WEIGHTS, runner_DEFAULT_WEIGHTS, run_args,
                   run_modules, run_found, run_report, notRun>>

\* runner.py:324-410: hotspots, scoring, the report
RunScore ==
    /\ run_pc = "scoring"
    /\ run_report' = build_report(run_args, run_modules, run_found, run_dep,
                         scoring_weights(runner_DEFAULT_WEIGHTS, severity_DEFAULT_WEIGHTS))
    /\ run_pc' = "done"
    /\ UNCHANGED <<severity_DEFAULT_WEIGHTS, runner_DEFAULT_WEIGHTS, run_args,
                   run_modules, run_found, run_dep, notRun>>

\* the caller has the report, or the exception, and the process goes on
RunReturn ==
    /\ run_pc \in {"done", "raised"}
    /\ run_pc' = "idle"
    /\ UNCHANGED <<severity_DEFAULT_WEIGHTS, runner_DEFAULT_WEIGHTS, run_args,
                   run_modules, run_found, run_dep, run_report, notRun>>

Next ==
    \/ OverrideWeights
    \/ RunStart
    \/ RunParse
    \/ RunSecurity
    \/ RunComplexity
    \/ RunDuplication
    \/ RunTestingDocs
    \/ RunPerformance
    \/ RunDependencies
    \/ RunScore
    \/ RunReturn

Spec == RunInit /\ [][Next]_vars

-----------------------------------------------------------------------------
(* Error isolation and weight overrides of run_analysis                     *)

AllParse(files) == \A q \in 1..Len(files) : files[q].parses

\* the module a file is to yield: empty when the file does not parse
ClaimedModule(file) ==
    [path |-> file.path, lang |-> runner_detect_language(file),
     functions |-> IF file.parses THEN file.functions ELSE <<>>]

\* C1: with no detector failing, a run over a file set with a Python file
\* that does not parse never raises; it ends with a report in which every
\* file, the malformed one included, has its module, the malformed one with
\* an empty function list and every other with the functions it defines.
C1_MalformedFileIsolated ==
    run_args.fault = "none" =>
        /\ run_pc # "raised"
        /\ run_pc = "done" =>
              /\ Len(run_modules) = Len(run_args.metas)
              /\ \A q \in 1..Len(run_modules) :
                    run_modules[q] = ClaimedModule(run_args.metas[q])
              /\ run_report.files_analyzed = Len(run_args.metas)

\* the list each detector produces in a run in which no detector fails
NominalFindings(args, modules) ==
    LET fns == all_functions_of(modules)
        td == run_testing_and_docs(modules, args.metas)
    IN  [c \in Categories |->
            CASE c = "security" -> security_findings(args.metas)
              [] c = "complexity" -> detect_complexity(fns, detection_warn_at(args))
              [] c = "duplication" -> detect_duplication(fns, 7, <<90, 100>>, 400, 2000)
              [] c = "performance" -> detect_performance(fns, args.metas)
              [] c = "documentation" -> td.docs
              [] c = "testing" -> td.gaps]

\* C2: when one of the six detectors raises in a run whose files all parse,
\* the run does not raise, and its report has no finding of the failed
\* detector and, for every other detector, the list of the run without
\* failure.
C2_DetectorFailureIsolated ==
    (run_args.fault # "none" /\ AllParse(run_args.metas)) =>
        /\ run_pc # "raised"
        /\ run_pc = "done" =>
              \A c \in Categories :
                  run_report.findings_raw[c] =
                      IF c = run_args.fault THEN <<>>
                      ELSE NominalFindings(run_args, run_modules)[c]

\* C3: a finished run has scored every finding with the weights in force
\* after the override_weights calls made before it, so that a security
\* finding's score is clamp01 of the overridden security weight.
C3_OverrideApplies ==
    run_pc = "done" =>
        run_report.findings_scored =
            score_all_findings(run_found, OrElse(effective_warn_at(run_args), 10),
                               severity_DEFAULT_WEIGHTS)

-----------------------------------------------------------------------------
(* Scores and tiers of the scored findings                                  *)

\* the tier of a score, stated by its bounds
TierOf(x) ==
    CASE RLe(<<80, 100>>, x) -> "P0"
      [] RLe(<<60, 100>>, x) /\ RLt(x, <<80, 100>>) -> "P1"
      [] RLe(<<40, 100>>, x) /\ RLt(x, <<60, 100>>) -> "P2"
      [] RLt(x, <<40, 100>>) -> "P3"

ScoreAndTierOK(sf) ==
    /\ RLe(RZero, sf.score)
    /\ RLe(sf.score, ROne)
    /\ sf.severity = TierOf(sf.score)

\* the scoring of the run's findings under the weights severity.py holds
\* after the override_weights calls
ScoredUnderOverrides ==
    score_all_findings(run_found, OrElse(effective_warn_at(run_args), 10),
                       severity_DEFAULT_WEIGHTS)

\* C11: every entry of findings_scored of a finished run has a score in
\* [0, 1] and the severity that is the tier of that score; the same holds
\* of the scoring of the same findings under overridden weights, a weight
\* above 1 included.
C11_ScoreInUnitAndTier ==
    run_pc = "done" =>
        /\ \A q \in 1..Len(run_report.findings_scored) :
              ScoreAndTierOK(run_report.findings_scored[q])
        /\ \A q \in 1..Len(ScoredUnderOverrides) :
              ScoreAndTierOK(ScoredUnderOverrides[q])

\* a report with a finding on a tier boundary (0.6), one at the top (1.0) and
\* one in the lowest tier, while severity.py holds a weight above 1
C11_Witness ==
    /\ run_pc = "done"
    /\ RLt(ROne, severity_DEFAULT_WEIGHTS["complexity"])
    /\ \E q \in 1..Len(run_report.findings_scored) :
          /\ REq(run_report.findings_scored[q].score, <<60, 100>>)
          /\ run_report.findings_scored[q].severity = "P1"
    /\ \E q \in 1..Len(run_report.findings_scored) :
          run_report.findings_scored[q].severity = "P0"
    /\ \E q \in 1..Len(run_report.findings_scored) :
          run_report.findings_scored[q].severity = "P3"

\* the scored complexity findings of file path in a report
ComplexityScoredOf(report, path) ==
    SelectSeq(report.findings_scored,
              LAMBDA sf : sf.category = "complexity" /\ sf.file = path)

\* C12: a run with warn_at = 10 and the built-in weights over a file whose
\* one function has 12 if-statements reports exactly one complexity finding
\* for it, of value 13 and of severity P0, P1 or P2.
C12_ScenarioA ==
    (/\ run_pc = "done"
     /\ run_args.fault = "none"
     /\ run_args.rules_warn_at = None
     /\ \E q \in 1..Len(run_args.metas) : run_args.metas[q] = FileA) =>
        LET cs == ComplexityScoredOf(run_report, "src/a.py")
        IN  /\ Len(cs) = 1
            /\ cs[1].extra.value = 13
            /\ cs[1].severity \in {"P0", "P1", "P2"}

-----------------------------------------------------------------------------
(* The ranking of hotspot entries (runner.py:342) on drawn entry lists      *)

MaxHot == 3

HotPaths == {PathsInOrder[x] : x \in (1..MaxHot) \cap DOMAIN PathsInOrder}

\* (score, fan_in, complexity) of an entry: equal in none, one, two or all
\* three of the numbers
HotValues ==
    { <<<<1, 2>>, 1, 13>>, <<<<0, 1>>, 1, 13>>, <<<<0, 1>>, 0, 13>>, <<<<0, 1>>, 0, 10>> }

HotEntry(path, v) ==
    [path |-> path, score |-> v[1], fan_in |-> v[2], complexity_sum |-> v[3]]

\* the lists of entries with pairwise different paths, in every order
HotInputs ==
    UNION { { hs \in [1..n -> {HotEntry(pth, v) : pth \in HotPaths, v \in HotValues}] :
                \A x, y \in 1..n : x # y => hs[x].path # hs[y].path } :
            n \in 0..Cardinality(HotPaths) }

HotInit ==
    /\ fn_pc = "input"
    /\ fn_in \in HotInputs
    /\ fn_out = <<>>
    /\ SevIdle
    /\ DupIdle
    /\ DepIdle
    /\ RunIdle

HotRank ==
    /\ fn_pc = "input"
    /\ fn_out' = hotspot_sort(fn_in)
    /\ fn_pc' = "returned"
    /\ UNCHANGED <<fn_in, notFn>>

HotNext == HotRank

SpecHot == HotInit /\ [][HotNext]_vars

\* a comes strictly before b: higher score, then higher fan_in, then higher
\* complexity, then the path
RankedBefore(a, b) ==
    \/ RLt(b.score, a.score)
    \/ REq(a.score, b.score) /\ a.fan_in > b.fan_in
    \/ REq(a.score, b.score) /\ a.fan_in = b.fan_in
         /\ a.complexity_sum > b.complexity_sum
    \/ REq(a.score, b.score) /\ a.fan_in = b.fan_in
         /\ a.complexity_sum = b.complexity_sum /\ PathRank(a.path) < PathRank(b.path)

\* the orderings of a list
Reorderings(hs) ==
    { [x \in 1..Len(hs) |-> hs[p[x]]] :
        p \in {q \in [1..Len(hs) -> 1..Len(hs)] :
                  \A x, y \in 1..Len(hs) : x # y => q[x] # q[y]} }

\* C13: the ranked list holds the entries given, each strictly before the
\* next by (score, fan_in, complexity) descending and then by path, and
\* ranking the same entries given in any other order returns the same list.
C13_HotspotOrderTotal ==
    fn_pc = "returned" =>
        /\ Len(fn_out) = Len(fn_in)
        /\ SeqRange(fn_out) = SeqRange(fn_in)
        /\ \A x \in 1..(Len(fn_out) - 1) : RankedBefore(fn_out[x], fn_out[x + 1])
        /\ \A hs \in Reorderings(fn_in) : hotspot_sort(hs) = fn_out

\* three entries equal in score, fan_in and complexity, given in descending
\* order of their paths
C13_Witness ==
    /\ fn_pc = "returned"
    /\ Len(fn_in) = 3
    /\ \A x, y \in 1..3 :
          /\ REq(fn_in[x].score, fn_in[y].score)
          /\ fn_in[x].fan_in = fn_in[y].fan_in
          /\ fn_in[x].complexity_sum = fn_in[y].complexity_sum
    /\ PathRank(fn_in[1].path) > PathRank(fn_in[2].path)
    /\ PathRank(fn_in[2].path) > PathRank(fn_in[3].path)
    /\ fn_out # fn_in

-----------------------------------------------------------------------------
(* The hotspot scores of a report                                           *)

\* file g imports the module of file f: by its name, or by a relative source
Imports(g, f) ==
    \E q \in 1..Len(g.imports) :
        /\ g.parses
        /\ g.imports[q].parts = f.stem
        /\ g.path # f.path

\* the number of files of the run that import the module of f
ModuleFanIn(f, files) == Cardinality({g \in SeqRange(files) : Imports(g, f)})

\* the sum of the complexity values reported for path
ComplexityTotal(comp, path) ==
    LET m == comp_map_of(comp, <<>>)
        at == {x \in 1..Len(m) : m[x][1] = path}
    IN  IF at = {} THEN 0 ELSE m[CHOOSE x \in at : TRUE][2]

\* x / max, and 0 when max is 0
ClaimedNorm(x, max) == IF max = 0 THEN RZero ELSE <<x, max>>

\* C14: in a finished run every hotspot entry has the score
\* norm(fan-in of the file's module) * norm(complexity total of the file),
\* each normalised by its maximum over the files of the run (0 when that
\* maximum is 0); the score lies in [0, 1], and an entry whose file has the
\* maximal fan-in and the maximal complexity total has score 1.
C14_HotspotScore ==
    (run_pc = "done" /\ run_args.fault = "none") =>
        LET files == run_args.metas
            comp == run_report.findings_raw["complexity"]
            max_fi == MaxOf({ModuleFanIn(f, files) : f \in SeqRange(files)}, 0)
            max_c == MaxOf({ComplexityTotal(comp, f.path) : f \in SeqRange(files)}, 0)
        IN  \A q \in 1..Len(run_report.hotspots) :
                LET h == run_report.hotspots[q]
                    fi == ModuleFanIn(FileOf(files, h.path), files)
                    c == ComplexityTotal(comp, h.path)
                IN  /\ REq(h.score, RMul(ClaimedNorm(fi, max_fi), ClaimedNorm(c, max_c)))
                    /\ RLe(RZero, h.score)
                    /\ RLe(h.score, ROne)
                    /\ (fi = max_fi /\ c = max_c) => REq(h.score, ROne)

-----------------------------------------------------------------------------
(* ingestion/walker.py: walk_repo on drawn trees                            *)

MaxTree == 3

\* walker.py:30-37
HARD_EXCLUDE_DIRS ==
    {".git", ".hg", ".svn", ".venv", "venv", "env", "__pycache__", "node_modules",
     "dist", "build", ".next", ".turbo", ".idea", ".vscode", ".cache", ".pytest_cache"}

\* A relative path: its components, its text and the suffix of its last
\* component.
RelPath(parts, text, suffix) == [parts |-> parts, text |-> text, suffix |-> suffix]

\* a directory entry: a regular file, or a symbolic link to the file target
TreeFile(path, size, readable, target) ==
    [path |-> path, size |-> size, readable |-> readable, target |-> target]

PathA == RelPath(<<"a.py">>, "a.py", ".py")
PathB == RelPath(<<"src", "b.py">>, "src/b.py", ".py")
PathBig == RelPath(<<"src", "big.py">>, "src/big.py", ".py")
PathN == RelPath(<<"src", "n.txt">>, "src/n.txt", ".txt")
PathD == RelPath(<<"docs", "d.py">>, "docs/d.py", ".py")
PathH == RelPath(<<".git", "h.py">>, ".git/h.py", ".py")
PathU == RelPath(<<"src", "u.py">>, "src/u.py", ".py")
PathL == RelPath(<<"src", "l.py">>, "src/l.py", ".py")
PathJ == RelPath(<<"src", "c.js">>, "src/c.js", ".js")

\* the texts of the paths in ascending order of str
TreePathsInOrder ==
    <<".git/h.py", "a.py", "docs/d.py", "src/b.py", "src/big.py", "src/c.js",
      "src/l.py", "src/n.txt", "src/u.py">>

TreePathRank(text) ==
    CHOOSE x \in 1..Len(TreePathsInOrder) : TreePathsInOrder[x] = text

\* sizes are 1, 2 (the cap of the calls drawn) and 3
TreeCatalogue ==
    { TreeFile(PathA, 2, TRUE, <<>>),
      TreeFile(PathB, 1, TRUE, <<>>),
      TreeFile(PathBig, 3, TRUE, <<>>),
      TreeFile(PathN, 1, TRUE, <<>>),
      TreeFile(PathD, 1, TRUE, <<>>),
      TreeFile(PathH, 1, TRUE, <<>>),
      TreeFile(PathU, 1, FALSE, <<>>),
      TreeFile(PathL, 1, TRUE, <<PathB>>),
      TreeFile(PathJ, 1, TRUE, <<>>) }

\* fnmatch.fnmatch(s, pat) for the patterns drawn: "*" and "**" both
\* translate to ".*", which also matches "/"
fnmatch(path, pat) ==
    CASE pat = "*.py" -> path.suffix = ".py"
      [] pat = "**/*.py" -> path.suffix = ".py" /\ Len(path.parts) >= 2
      [] pat = "**/*.js" -> path.suffix = ".js" /\ Len(path.parts) >= 2
      [] pat = "**/*.ts" -> path.suffix = ".ts" /\ Len(path.parts) >= 2
      [] pat = "docs/**" -> Len(path.parts) >= 2 /\ path.parts[1] = "docs"
      [] pat = "docs" -> path.parts = <<"docs">>

\* walker.py:59-64
matches_any(path, patterns) ==
    \E q \in 1..Len(patterns) : fnmatch(path, patterns[q])

\* PathSpec.match_file(path) for the same patterns read as gitwildmatch
\* lines: "docs" matches the directory at any depth and all beneath it
gitwildmatch(path, pat) ==
    CASE pat = "docs/**" -> Len(path.parts) >= 2 /\ path.parts[1] = "docs"
      [] pat = "docs" -> \E x \in 1..Len(path.parts) : path.parts[x] = "docs"
      [] OTHER -> FALSE

\* walker.py:42-57 and 74: None when pathspec is not installed, else the
\* exclude patterns (the trees drawn hold no .gitignore)
spec_match_file(has_pathspec, exclude, path) ==
    /\ has_pathspec
    /\ \E q \in 1..Len(exclude) : gitwildmatch(path, exclude[q])

\* the directories of a tree, root first and then in the order of os.walk
\* taken here: by depth and name
DirOf(path) == SubSeq(path.parts, 1, Len(path.parts) - 1)

TreeDirsInOrder == << <<>>, <<".git">>, <<"docs">>, <<"src">> >>

DirPath(parts) == RelPath(parts, "", "")

\* Path(dirpath, fname).resolve(): a link gives the path of its target
resolve(f) == IF f.target = <<>> THEN f.path ELSE f.target[1]

\* stat() of the resolved path: the size, or <<>> for FileNotFoundError
stat_size(tree, f) ==
    LET at == {g \in tree : g.path = resolve(f) /\ g.target = <<>>}
    IN  IF at = {} THEN <<>> ELSE <<(CHOOSE g \in at : TRUE).size>>

can_read(tree, f) ==
    \E g \in tree : g.path = resolve(f) /\ g.target = <<>> /\ g.readable

\* walker.py:82-93: the subdirectories of dir_rel that stay in dirnames
kept_subdirs(args, dir_rel) ==
    { d \in SeqRange(TreeDirsInOrder) :
        /\ Len(d) = Len(dir_rel) + 1
        /\ SubSeq(d, 1, Len(dir_rel)) = dir_rel
        /\ \E f \in args.tree : DirOf(f.path) = d
        /\ d[Len(d)] \notin HARD_EXCLUDE_DIRS
        /\ ~spec_match_file(args.has_pathspec, args.exclude, DirPath(d))
        /\ ~matches_any(DirPath(d), args.exclude) }

\* walker.py:95-129 for one file name: the FileMeta appended, if any
file_meta(args, f) ==
    LET rel == resolve(f)
        size == stat_size(args.tree, f)
    IN  IF spec_match_file(args.has_pathspec, args.exclude, rel) THEN <<>>
        ELSE IF matches_any(rel, args.exclude) THEN <<>>
        ELSE IF ~matches_any(rel, args.include) THEN <<>>
        ELSE IF size = <<>> THEN <<>>
        ELSE IF size[1] > args.max_bytes THEN <<>>
        ELSE IF ~can_read(args.tree, f) THEN <<>>
        ELSE <<[path |-> rel.text, bytes |-> size[1]]>>

\* the files of a directory as a list, in the order of their names
RECURSIVE files_in_order(_, _)
files_in_order(fs, x) ==
    IF x > Len(TreePathsInOrder) THEN <<>>
    ELSE LET here == {f \in fs : f.path.text = TreePathsInOrder[x]}
         IN  (IF here = {} THEN <<>> ELSE <<CHOOSE f \in here : TRUE>>)
                \o files_in_order(fs, x + 1)

\* sorted(results, key=lambda fm: str(fm.path)), stable
RECURSIVE meta_insert(_, _)
meta_insert(sorted, m) ==
    IF sorted = <<>> THEN <<m>>
    ELSE IF TreePathRank(Head(sorted).path) <= TreePathRank(m.path)
         THEN <<Head(sorted)>> \o meta_insert(Tail(sorted), m)
    ELSE <<m>> \o sorted

RECURSIVE meta_sort(_)
meta_sort(ms) ==
    IF ms = <<>> THEN <<>>
    ELSE meta_insert(meta_sort(SubSeq(ms, 1, Len(ms) - 1)), ms[Len(ms)])

\* runner.py:112
DefaultInclude == <<"**/*.py", "**/*.js", "**/*.ts">>

WalkInputs ==
    [tree : {t \in SUBSET TreeCatalogue : Cardinality(t) <= MaxTree},
     include : {<<"**/*.py">>, <<"*.py">>, DefaultInclude},
     exclude : {<<>>, <<"docs/**">>, <<"docs">>},
     max_bytes : {2},
     has_pathspec : BOOLEAN]

\* fn_out holds the state of the walk: the directories os.walk has still to
\* yield, those it has entered, the results so far and the list returned
WalkInit ==
    /\ fn_pc = "input"
    /\ fn_in \in WalkInputs
    /\ fn_out = [pending |-> << <<>> >>, entered |-> {}, results |-> <<>>,
                 returned |-> <<>>]
    /\ SevIdle
    /\ DupIdle
    /\ DepIdle
    /\ RunIdle

\* walker.py:77-129: one iteration of the loop over os.walk
WalkDir ==
    /\ fn_pc = "input"
    /\ fn_out.pending # <<>>
    /\ LET dir_rel == Head(fn_out.pending)
           kept == kept_subdirs(fn_in, dir_rel)
           names == files_in_order({f \in fn_in.tree : DirOf(f.path) = dir_rel}, 1)
       IN  fn_out' = [fn_out EXCEPT
               !.pending = SelectSeq(TreeDirsInOrder, LAMBDA d : d \in kept)
                              \o Tail(fn_out.pending),
               !.entered = @ \cup {dir_rel},
               !.results = @ \o Flatten([q \in 1..Len(names) |->
                                            file_meta(fn_in, names[q])])]
    /\ UNCHANGED <<fn_pc, fn_in, notFn>>

\* walker.py:130
WalkReturn ==
    /\ fn_pc = "input"
    /\ fn_out.pending = <<>>
    /\ fn_out' = [fn_out EXCEPT !.returned = meta_sort(fn_out.results)]
    /\ fn_pc' = "returned"
    /\ UNCHANGED <<fn_in, notFn>>

WalkNext ==
    \/ WalkDir
    \/ WalkReturn

SpecWalk == WalkInit /\ [][WalkNext]_vars

\* a directory that is hard-excluded or matches an exclude pattern, or lies
\* beneath one
ExcludedDir(args, d) ==
    \E n \in 1..Len(d) :
        \/ d[n] \in HARD_EXCLUDE_DIRS
        \/ matches_any(DirPath(SubSeq(d, 1, n)), args.exclude)
        \/ spec_match_file(args.has_pathspec, args.exclude, DirPath(SubSeq(d, 1, n)))

\* the files the walk is to return
ClaimedFiles(args) ==
    { f \in args.tree :
        /\ can_read(args.tree, f)
        /\ ~ExcludedDir(args, DirOf(f.path))
        /\ matches_any(f.path, args.include)
        /\ ~matches_any(f.path, args.exclude)
        /\ ~spec_match_file(args.has_pathspec, args.exclude, f.path)
        /\ stat_size(args.tree, f) # <<>>
        /\ stat_size(args.tree, f)[1] <= args.max_bytes }

\* C15: the list walk_repo returns is strictly ascending in the relative
\* path, so sorted and free of duplicates, and holds exactly the readable
\* files of the tree that lie in no excluded directory, match an include
\* pattern, match no exclude pattern or ignore rule and are not larger than
\* max_bytes; no excluded directory has been entered.
C15_WalkExactlyTheFiles ==
    fn_pc = "returned" =>
        LET out == fn_out.returned
        IN  /\ \A x \in 1..(Len(out) - 1) :
                  TreePathRank(out[x].path) < TreePathRank(out[x + 1].path)
            /\ {out[x].path : x \in 1..Len(out)}
                  = {f.path.text : f \in ClaimedFiles(fn_in)}
            /\ \A d \in fn_out.entered : ~ExcludedDir(fn_in, d)

-----------------------------------------------------------------------------
(* The line spans of the scored findings                                    *)

\* C16: every scored finding of a finished run, a duplication finding
\* included, has 1 <= start_line <= end_line.
C16_SpanOrdered ==
    run_pc = "done" =>
        \A q \in 1..Len(run_report.findings_scored) :
            /\ 1 <= run_report.findings_scored[q].start_line
            /\ run_report.findings_scored[q].start_line
                  <= run_report.findings_scored[q].end_line

-----------------------------------------------------------------------------
(* detectors/complexity.py: detect_complexity on drawn function lists       *)

MaxCxFns == 3
MaxBranch == 2

CxNames == {"f", "g", "h"}

\* lists of functions of one file with pairwise different names, in every
\* order, each with a branch count of its own
CxFunctionLists ==
    UNION { { fs \in [1..n -> {Fn("a.py", nm, "python", 1, 2, <<>>, b) :
                                  nm \in CxNames, b \in 0..MaxBranch}] :
                \A x, y \in 1..n : x # y => fs[x].name # fs[y].name } :
            n \in 0..(IF MaxCxFns < 3 THEN MaxCxFns ELSE 3) }

CxInit ==
    /\ fn_pc = "input"
    /\ fn_in \in [functions : CxFunctionLists, warn_at : 1..3]
    /\ fn_out = <<>>
    /\ SevIdle
    /\ DupIdle
    /\ DepIdle
    /\ RunIdle

CxDetect ==
    /\ fn_pc = "input"
    /\ fn_out' = detect_complexity(fn_in.functions, fn_in.warn_at)
    /\ fn_pc' = "returned"
    /\ UNCHANGED <<fn_in, notFn>>

CxNext == CxDetect

SpecCx == CxInit /\ [][CxNext]_vars

\* the findings of out that are about function fn
FindingsAbout(out, fn) == {q \in 1..Len(out) : out[q].id = <<fn.id, "complexity">>}

\* C17: a function has a finding iff 1 + branch_count >= warn_at, and then
\* exactly one, with value 1 + branch_count and threshold warn_at; every
\* finding is about a function given; the findings for any other order of
\* the functions are the same ones, in another order at most.
C17_ComplexityIff ==
    fn_pc = "returned" =>
        /\ \A x \in 1..Len(fn_in.functions) :
              LET fn == fn_in.functions[x]
                  about == FindingsAbout(fn_out, fn)
              IN  /\ Cardinality(about) = IF 1 + fn.branch >= fn_in.warn_at THEN 1 ELSE 0
                  /\ \A q \in about : /\ fn_out[q].value = 1 + fn.branch
                                      /\ fn_out[q].threshold = fn_in.warn_at
        /\ \A q \in 1..Len(fn_out) :
              \E x \in 1..Len(fn_in.functions) : q \in FindingsAbout(fn_out, fn_in.functions[x])
        /\ \A fs \in Reorderings(fn_in.functions) :
              LET other == detect_complexity(fs, fn_in.warn_at)
              IN  /\ Len(other) = Len(fn_out)
                  /\ SeqRange(other) = SeqRange(fn_out)

\* three functions: one at the threshold, one below it, one above
C17_Witness ==
    /\ fn_pc = "returned"
    /\ Len(fn_in.functions) = 3
    /\ \E x \in 1..3 : 1 + fn_in.functions[x].branch = fn_in.warn_at
    /\ \E x \in 1..3 : 1 + fn_in.functions[x].branch < fn_in.warn_at
    /\ \E x \in 1..3 : 1 + fn_in.functions[x].branch > fn_in.warn_at
    /\ Len(fn_out) = 2

-----------------------------------------------------------------------------
(* The three-module cycle                                                   *)

\* C18: for the edges A -> B, B -> C, C -> A, in whatever order they are
\* given, the metrics hold exactly one cycle, of three nodes, which are A, B
\* and C, and fan_in and fan_out are 1 for each of the three and defined for
\* no other node.
C18_ScenarioC ==
    (dep_pc = "done" /\ dep_edges \in ThreeCycleInputs) =>
        LET ABC == {NodeKey(1), NodeKey(2), NodeKey(3)}
        IN  /\ Len(dep_metrics.cycles) = 1
            /\ Len(dep_metrics.cycles[1]) = 3
            /\ SeqRange(dep_metrics.cycles[1]) = ABC
            /\ DOMAIN dep_metrics.fan_in = ABC
            /\ DOMAIN dep_metrics.fan_out = ABC
            /\ \A n \in ABC : dep_metrics.fan_in[n] = 1 /\ dep_metrics.fan_out[n] = 1

\* the call has returned for the three edges given as C -> A, B -> C, A -> B
C18_Witness ==
    /\ dep_pc = "done"
    /\ dep_edges = <<RingEdges(3)[3], RingEdges(3)[2], RingEdges(3)[1]>>
    /\ Len(dep_raw_cycles) = 1

-----------------------------------------------------------------------------
(* The run over no files                                                    *)

\* C19: a run that finds no matching file does not raise, and its report has
\* every summary count and every per-language count 0, no scored finding, no
\* hotspot, empty fan_in and fan_out and no cycle.
C19_ScenarioD ==
    run_args.metas = <<>> =>
        /\ run_pc # "raised"
        /\ run_pc = "done" =>
              /\ \A c \in Categories : run_report.summary[c] = 0
              /\ run_report.by_language = <<0, 0, 0>>
              /\ run_report.files_analyzed = 0
              /\ run_report.functions_analyzed = 0
              /\ run_report.findings_scored = <<>>
              /\ run_report.hotspots = <<>>
              /\ DOMAIN run_report.dep_metrics.fan_in = {}
              /\ DOMAIN run_report.dep_metrics.fan_out = {}
              /\ run_report.dep_metrics.cycles = <<>>

\* a run over no files, in which a security scanner would fail were one
\* called, has returned its report
C19_Witness ==
    /\ run_pc = "done"
    /\ run_args.metas = <<>>
    /\ run_args.fault = "security"
    /\ run_report.findings_raw = NoFindings

-----------------------------------------------------------------------------
(* detectors/duplication.py: normalize, shingles and jaccard on two texts   *)
(* that differ in the spelling of names and numbers only                    *)

MaxItems == 3

\* the spellings of a lexical item of each kind: names, numeric literals
\* (two integers and a decimal fraction), operators
Spellings(kind) ==
    CASE kind = "name" -> {<<"x">>, <<"y", "1">>}
      [] kind = "number" -> {<<"1">>, <<"2", "0">>, <<"1", ".", "2">>}
      [] kind = "plus" -> {<<"+">>}
      [] kind = "semicolon" -> {<<";">>}

ItemKinds == {"name", "number", "plus", "semicolon"}

\* a pair of spellings of one item: two spellings of the same kind
ItemPairs ==
    UNION { {[kind |-> kd, first |-> a, second |-> b] :
                a \in Spellings(kd), b \in Spellings(kd)} : kd \in ItemKinds }

\* the source text of a list of spellings, items separated by a blank
RECURSIVE Render(_)
Render(spells) ==
    IF spells = <<>> THEN <<>>
    ELSE IF Len(spells) = 1 THEN spells[1]
    ELSE spells[1] \o <<" ">> \o Render(Tail(spells))

NormInputs ==
    { [first |-> Render([x \in 1..Len(ps) |-> ps[x].first]),
       second |-> Render([x \in 1..Len(ps) |-> ps[x].second]),
       items |-> Len(ps),
       integers_only |-> \A x \in 1..Len(ps) :
                            /\ "." \notin SeqRange(ps[x].first)
                            /\ "." \notin SeqRange(ps[x].second),
       k |-> k] :
        ps \in SeqsUpTo(ItemPairs, MaxItems), k \in 1..2 }

NormInit ==
    /\ fn_pc = "input"
    /\ fn_in \in NormInputs
    /\ fn_out = <<>>
    /\ SevIdle
    /\ DupIdle
    /\ DepIdle
    /\ RunIdle

\* duplication.py:61 and 75 for the two texts
NormCompare ==
    /\ fn_pc = "input"
    /\ LET t1 == normalize(fn_in.first)
           t2 == normalize(fn_in.second)
           s1 == shingles(t1, fn_in.k)
           s2 == shingles(t2, fn_in.k)
       IN  fn_out' = [tokens1 |-> t1, tokens2 |-> t2, sig1 |-> s1, sig2 |-> s2,
                      similarity |-> jaccard(s1, s2)]
    /\ fn_pc' = "returned"
    /\ UNCHANGED <<fn_in, notFn>>

NormNext == NormCompare

SpecNorm == NormInit /\ [][NormNext]_vars

\* C20: two texts that differ only in how their names and their numeric
\* literals are spelled have the same normalized token stream and the same
\* shingle set, and with at least k tokens their Jaccard similarity is 1.
C20_SpellingInvariant ==
    fn_pc = "returned" =>
        /\ fn_out.tokens1 = fn_out.tokens2
        /\ fn_out.sig1 = fn_out.sig2
        /\ Len(fn_out.tokens1) >= fn_in.k => REq(fn_out.similarity, ROne)

-----------------------------------------------------------------------------
(* severity.override_weights, calls in sequence on drawn arguments          *)

\* the categories whose weight the drawn arguments may name
OvrCategories == {"security", "complexity", "documentation"}

\* the values an entry may have: two numbers and a string
OvrValues == {Numeric(<<5, 10>>), Numeric(<<15, 10>>), NonNumeric}

\* None or {} is the empty mapping
OvrArgs == UNION { [ks -> OvrValues] : ks \in SUBSET OvrCategories }

OvrInit ==
    /\ RunIdle
    /\ fn_pc = "input"
    /\ fn_in \in OvrArgs
    /\ fn_out = [before |-> DEFAULT_WEIGHTS]
    /\ SevIdle
    /\ DupIdle
    /\ DepIdle

\* severity.py:118-128: one call; fn_out keeps the mapping bound before it
OvrCall ==
    /\ fn_pc = "input"
    /\ severity_DEFAULT_WEIGHTS' = override_weights(severity_DEFAULT_WEIGHTS, fn_in)
    /\ fn_out' = [before |-> severity_DEFAULT_WEIGHTS]
    /\ fn_pc' = "returned"
    /\ UNCHANGED <<fn_in, runner_DEFAULT_WEIGHTS, run_pc, run_args, run_modules,
                   run_found, run_dep, run_report, sevVars, dupVars, depVars>>

\* the caller goes on to its next call
OvrAgain ==
    /\ fn_pc = "returned"
    /\ fn_in' \in OvrArgs
    /\ fn_pc' = "input"
    /\ UNCHANGED <<fn_out, runVars, sevVars, dupVars, depVars>>

OvrNext ==
    \/ OvrCall
    \/ OvrAgain

SpecOvr == OvrInit /\ [][OvrNext]_vars

\* C21: after a call the weight of a category is the value given for it if
\* that value is a number and the weight it had before the call otherwise
\* (category not named, or named with a non-numeric value); an empty
\* argument leaves all weights as they were; the mapping object bound at
\* import, which the runner still holds, has the built-in weights throughout.
C21_OverrideFrame ==
    /\ runner_DEFAULT_WEIGHTS = DEFAULT_WEIGHTS
    /\ fn_pc = "returned" =>
          /\ DOMAIN severity_DEFAULT_WEIGHTS = Categories
          /\ \A c \in Categories :
                severity_DEFAULT_WEIGHTS[c] =
                    IF c \in DOMAIN fn_in /\ fn_in[c].numeric THEN fn_in[c].value
                    ELSE fn_out.before[c]
          /\ DOMAIN fn_in = {} => severity_DEFAULT_WEIGHTS = fn_out.before

\* a call that gave a number for one category and a string for another has
\* returned, after an earlier call had changed a third
C21_Witness ==
    /\ fn_pc = "returned"
    /\ fn_out.before["security"] = <<5, 10>>
    /\ DOMAIN fn_in = {"complexity", "documentation"}
    /\ fn_in["complexity"] = Numeric(<<15, 10>>)
    /\ fn_in["documentation"] = NonNumeric
    /\ severity_DEFAULT_WEIGHTS["security"] = <<5, 10>>
    /\ severity_DEFAULT_WEIGHTS["complexity"] = <<15, 10>>
    /\ severity_DEFAULT_WEIGHTS["documentation"] = <<3, 10>>

-----------------------------------------------------------------------------
(* The reported cycles against the cycles of the graph                      *)

\* the edges a node sequence runs along when it is closed to a cycle
CycleEdges(c) ==
    {<<c[x], c[(x % Len(c)) + 1]>> : x \in 1..Len(c)}

\* the node reached from n along E
SuccIn(E, n) == (CHOOSE e \in E : e[1] = n)[2]

RECURSIVE OrbitFrom(_, _, _)
OrbitFrom(E, n, seen) ==
    IF n \in seen THEN seen ELSE OrbitFrom(E, SuccIn(E, n), seen \cup {n})

\* E is the edge set of one simple cycle: every node on it is left by one
\* edge and entered by one, and the edges form a single round trip
IsCycleEdgeSet(E) ==
    /\ E # {}
    /\ \A e \in E : /\ Cardinality({d \in E : d[1] = e[1]}) = 1
                    /\ Cardinality({d \in E : d[2] = e[2]}) = 1
                    /\ \E d \in E : d[1] = e[2]
    /\ Cardinality(OrbitFrom(E, (CHOOSE e \in E : TRUE)[1], {})) = Cardinality(E)

\* the simple cycles of G, each as its edge set
CyclesOf(G) == {E \in SUBSET G.edges : IsCycleEdgeSet(E)}

\* C22: when the graph has at most 10 simple cycles, of at most 8 nodes
\* each, the reported list holds every simple cycle once and nothing else:
\* each entry has pairwise different nodes, runs along edges of the graph and
\* closes, no two entries are the same cycle, and no cycle is missing.
C22_AllCyclesOnce ==
    dep_pc = "done" =>
        LET all == CyclesOf(dep_G)
            rep == dep_metrics.cycles
        IN  (Cardinality(all) <= 10 /\ \A E \in all : Cardinality(E) <= 8) =>
                /\ \A q \in 1..Len(rep) :
                      /\ rep[q] # <<>>
                      /\ Cardinality(SeqRange(rep[q])) = Len(rep[q])
                      /\ CycleEdges(rep[q]) \subseteq dep_G.edges
                /\ \A q, x \in 1..Len(rep) :
                      q # x => CycleEdges(rep[q]) # CycleEdges(rep[x])
                /\ {CycleEdges(rep[q]) : q \in 1..Len(rep)} = all

\* the complete graph on three nodes: three cycles of two nodes and two of
\* three, all five reported
C22_Witness ==
    /\ dep_pc = "done"
    /\ dep_edges = CompleteEdges(3)
    /\ Len(dep_metrics.cycles) = 5
    /\ \E q \in 1..5 : Len(dep_metrics.cycles[q]) = 2
    /\ \E q \in 1..5 : Len(dep_metrics.cycles[q]) = 3

-----------------------------------------------------------------------------
(* _PerfVisitor on the assignments of a module (performance.py:30-108)     *)
(* An ast node is a record with its class in "type"; a Python list is a    *)
(* node of type "list", so that isinstance tells the two apart.            *)

MaxStmts == 2

isinstance(obj, cls) == obj.type = cls

ast_Name(id) == [type |-> "Name", id |-> id]
\* <left> <op> y
ast_BinOp(left, op) ==
    [type |-> "BinOp", left |-> left, op |-> op, right |-> ast_Name("y")]
py_list(items) == [type |-> "list", items |-> items]

\* x += y and x -= y
ast_AugAssign(op, lineno) ==
    [type |-> "AugAssign", target |-> ast_Name("x"), op |-> op, lineno |-> lineno,
     end_lineno |-> lineno]

\* x = <value>; ast.Assign.targets is the list of the targets
ast_Assign(value, lineno) ==
    [type |-> "Assign", targets |-> py_list(<<ast_Name("x")>>), value |-> value,
     lineno |-> lineno, end_lineno |-> lineno]

\* for and while statements with a body
ast_Loop(type, body, lineno) ==
    [type |-> type, body |-> body, lineno |-> lineno,
     end_lineno |-> lineno + Len(body)]

\* performance.py:57-67, _mark for src_path "src/a.py"
mark(kind, node) ==
    [id |-> <<"src/a.py", kind, node.lineno>>, category |-> "performance",
     file |-> "src/a.py", start_line |-> node.lineno, end_line |-> node.end_lineno,
     kind |-> kind]

\* performance.py:94-99
visit_AugAssign(node, loop_depth) ==
    IF loop_depth > 0 /\ isinstance(node.op, "Add")
    THEN <<mark("string_concat_in_loop", node)>>
    ELSE <<>>

\* performance.py:101-108: the second condition asks whether the list
\* node.targets is an ast.Name
visit_Assign(node, loop_depth) ==
    IF loop_depth > 0 /\ isinstance(node.value, "BinOp") /\ isinstance(node.value.op, "Add")
    THEN IF /\ node.targets.items # <<>>
            /\ isinstance(node.targets, "Name")
            /\ isinstance(node.value.left, "Name")
         THEN IF node.targets.id = node.value.left.id
              THEN <<mark("string_concat_in_loop", node)>>
              ELSE <<>>
         ELSE <<>>
    ELSE <<>>

\* performance.py:69-77 and ast.NodeVisitor.visit/generic_visit: a loop
\* visits its body one level deeper; the bodies here hold assignments and
\* loops only, and the children of an assignment mark nothing
RECURSIVE visit(_, _)
visit(node, loop_depth) ==
    IF isinstance(node, "For") \/ isinstance(node, "While")
    THEN Flatten([q \in 1..Len(node.body) |-> visit(node.body[q], loop_depth + 1)])
    ELSE IF isinstance(node, "AugAssign") THEN visit_AugAssign(node, loop_depth)
    ELSE IF isinstance(node, "Assign") THEN visit_Assign(node, loop_depth)
    ELSE <<>>

\* the statements of the modules drawn: x += y, x -= y, x = x + y, x = y + y,
\* x = x - y, x = y - y, x = x, x = y
StmtShapes ==
    [stmt : {"AugAssign"}, op : {"Add", "Sub"}, left : {"y"}]
        \cup [stmt : {"Assign"}, op : {"Add", "Sub", "none"}, left : {"x", "y"}]

\* where a statement stands: at module level, in a for, in a while, or in a
\* while inside a for
Wraps == {"none", "For", "While", "ForWhile"}

Slots == [wrap : Wraps, shape : StmtShapes]

build_stmt(d, lineno) ==
    IF d.stmt = "AugAssign" THEN ast_AugAssign([type |-> d.op], lineno)
    ELSE ast_Assign(IF d.op = "none" THEN ast_Name(d.left)
                    ELSE ast_BinOp(ast_Name(d.left), [type |-> d.op]), lineno)

\* the line of the statement of slot q; a slot takes three lines
StmtLine(slots, q) ==
    3 * (q - 1) + (IF slots[q].wrap = "none" THEN 1
                   ELSE IF slots[q].wrap = "ForWhile" THEN 3 ELSE 2)

\* ast.parse of the text the slots stand for
ast_parse(slots) ==
    [q \in 1..Len(slots) |->
        LET stmt == build_stmt(slots[q].shape, StmtLine(slots, q))
            base == 3 * (q - 1)
        IN  IF slots[q].wrap = "none" THEN stmt
            ELSE IF slots[q].wrap = "ForWhile"
            THEN ast_Loop("For", <<ast_Loop("While", <<stmt>>, base + 2)>>, base + 1)
            ELSE ast_Loop(slots[q].wrap, <<stmt>>, base + 1)]

PerfModules == UNION {[1..n -> Slots] : n \in 1..MaxStmts}

PerfInit ==
    /\ RunIdle
    /\ fn_pc = "input"
    /\ fn_in \in PerfModules
    /\ fn_out = <<>>
    /\ SevIdle
    /\ DupIdle
    /\ DepIdle

\* performance.py:118-120: v.visit(tree) on the parsed module
PerfVisit ==
    /\ fn_pc = "input"
    /\ fn_out' = LET tree == ast_parse(fn_in)
                 IN  Flatten([q \in 1..Len(tree) |-> visit(tree[q], 0)])
    /\ fn_pc' = "returned"
    /\ UNCHANGED <<fn_in, notFn>>

PerfNext == PerfVisit

SpecPerf == PerfInit /\ [][PerfNext]_vars

\* whether the statement of slot q is marked as a string concatenation
Flagged(q) ==
    \E x \in 1..Len(fn_out) :
        /\ fn_out[x].kind = "string_concat_in_loop"
        /\ fn_out[x].start_line = StmtLine(fn_in, q)

IsAugAdd(d) == d.stmt = "AugAssign" /\ d.op = "Add"
IsSelfAdd(d) == d.stmt = "Assign" /\ d.op = "Add" /\ d.left = "x"

\* C23: x = x + y is flagged as string_concat_in_loop exactly where x += y
\* is: inside a for or while loop, and not outside loops.
C23_AssignFlaggedLikeAugAssign ==
    fn_pc = "returned" =>
        \A q \in 1..Len(fn_in) :
            (IsAugAdd(fn_in[q].shape) \/ IsSelfAdd(fn_in[q].shape)) =>
                (Flagged(q) <=> fn_in[q].wrap # "none")

\* what does hold: the augmented form is flagged exactly in loops, the plain
\* form nowhere
OnlyAugAssignFlagged ==
    fn_pc = "returned" =>
        \A q \in 1..Len(fn_in) :
            Flagged(q) <=> (IsAugAdd(fn_in[q].shape) /\ fn_in[q].wrap # "none")

-----------------------------------------------------------------------------
(* detect_test_gaps on paths and a disk (testing_docs.py:74-130)           *)
(* A relative path is its directory names and its file name, the name a    *)
(* sequence of characters.                                                 *)

MaxSrc == 2

RelFile(parent, name) == [parent |-> parent, name |-> name]

startswith(s, prefix) ==
    Len(s) >= Len(prefix) /\ SubSeq(s, 1, Len(prefix)) = prefix

endswith(s, suffix) ==
    Len(s) >= Len(suffix) /\ SubSeq(s, Len(s) - Len(suffix) + 1, Len(s)) = suffix

\* pathlib: the suffix starts at the last dot, unless the name has none or
\* starts with its only dot
LastDot(name) ==
    LET dots == {x \in 2..Len(name) : name[x] = "."}
    IN  IF dots = {} THEN Len(name) + 1
        ELSE CHOOSE x \in dots : \A y \in dots : y <= x

path_suffix(p) == SubSeq(p.name, LastDot(p.name), Len(p.name))
path_stem(p) == SubSeq(p.name, 1, LastDot(p.name) - 1)

PyExt == <<".", "p", "y">>
TestPrefix == <<"t", "e", "s", "t", "_">>
TestSuffix == <<"_", "t", "e", "s", "t">>

\* drop the later occurrences, as the seen set does
RECURSIVE dedup(_)
dedup(q) ==
    IF q = <<>> THEN <<>>
    ELSE LET rest == dedup(SubSeq(q, 1, Len(q) - 1))
             last == q[Len(q)]
         IN  IF last \in SeqRange(rest) THEN rest ELSE Append(rest, last)

\* the candidates under tests/ only
expected_test_paths_mirror(src_rel) ==
    LET name == path_stem(src_rel)
        pkg == src_rel.parent
    IN  dedup(<<RelFile(<<"tests">>, TestPrefix \o name \o PyExt),
                RelFile(<<"tests">> \o pkg, TestPrefix \o name \o PyExt),
                RelFile(<<"tests">>, name \o TestSuffix \o PyExt),
                RelFile(<<"tests">> \o pkg, name \o TestSuffix \o PyExt)>>)

\* testing_docs.py:74-102; Path() drops the "." that stands for the parent
\* of a file at the root
expected_test_paths(src_rel) ==
    LET name == path_stem(src_rel)
        pkg == src_rel.parent
    IN  dedup(<<RelFile(<<"tests">>, TestPrefix \o name \o PyExt),
                RelFile(<<"tests">> \o pkg, TestPrefix \o name \o PyExt),
                RelFile(<<"tests">>, name \o TestSuffix \o PyExt),
                RelFile(<<"tests">> \o pkg, name \o TestSuffix \o PyExt),
                RelFile(src_rel.parent, TestPrefix \o name \o PyExt),
                RelFile(src_rel.parent, name \o TestSuffix \o PyExt)>>)

\* testing_docs.py:110
is_test_name(name) == startswith(name, TestPrefix) \/ endswith(name, TestSuffix \o PyExt)

\* testing_docs.py:115-119
candidate_exists(disk, src_rel) ==
    \E q \in 1..Len(expected_test_paths(src_rel)) : expected_test_paths(src_rel)[q] \in disk

\* what detect_test_gaps reads of one entry of src_files
gap_file(disk, src_rel) ==
    [path |-> src_rel, stem |-> path_stem(src_rel),
     suffix |-> IF path_suffix(src_rel) = PyExt THEN ".py" ELSE "other",
     test_named |-> is_test_name(src_rel.name),
     test_exists |-> candidate_exists(disk, src_rel)]

NameA == <<"a", ".", "p", "y">>
NameAJs == <<"a", ".", "j", "s">>
NameTestA == <<"t", "e", "s", "t", "_", "a", ".", "p", "y">>
NameATest == <<"a", "_", "t", "e", "s", "t", ".", "p", "y">>

\* the files a run may hand over, and the test files that may be on disk
GapSources ==
    {RelFile(<<>>, NameA), RelFile(<<"src">>, NameA), RelFile(<<"src">>, NameAJs),
     RelFile(<<"src">>, NameTestA), RelFile(<<"src">>, NameATest),
     RelFile(<<"tests">>, NameTestA)}

GapTests ==
    {RelFile(parent, name) :
        parent \in {<<>>, <<"src">>, <<"tests">>, <<"tests", "src">>},
        name \in {NameTestA, NameATest}}

\* the listed files are on disk
GapInputs ==
    {[src_files |-> q, disk |-> SeqRange(q) \cup extra] :
        q \in UNION {[1..n -> GapSources] : n \in 1..MaxSrc},
        extra \in SUBSET GapTests}

GapInit ==
    /\ RunIdle
    /\ fn_pc = "input"
    /\ fn_in \in GapInputs
    /\ fn_out = <<>>
    /\ SevIdle
    /\ DupIdle
    /\ DepIdle

\* testing_docs.py:104-130
GapDetect ==
    /\ fn_pc = "input"
    /\ fn_out' = detect_test_gaps([q \in 1..Len(fn_in.src_files) |->
                                     gap_file(fn_in.disk, fn_in.src_files[q])])
    /\ fn_pc' = "returned"
    /\ UNCHANGED <<fn_in, notFn>>

GapNext == GapDetect

SpecGap == GapInit /\ [][GapNext]_vars

\* the candidate test paths as the claim lists them: test_<name>.py and
\* <name>_test.py under tests/, under the mirror of the directory in tests/,
\* and next to the source
ClaimedCandidates(p) ==
    {RelFile(parent, name) :
        parent \in {<<"tests">>, <<"tests">> \o p.parent, p.parent},
        name \in {TestPrefix \o path_stem(p) \o PyExt,
                  path_stem(p) \o TestSuffix \o PyExt}}

ClaimedGap(p, disk) ==
    /\ endswith(p.name, PyExt)
    /\ ~startswith(p.name, TestPrefix)
    /\ ~endswith(p.name, TestSuffix \o PyExt)
    /\ ClaimedCandidates(p) \cap disk = {}

-----------------------------------------------------------------------------
(* Imports between the analysed Python files and the fan-in of the report  *)

\* the Python file X has an import whose top-level name is the stem of Y
ImportsTopLevel(X, Y) ==
    /\ runner_detect_language(X) = "python"
    /\ X.parses
    /\ X.path # Y.path
    /\ \E q \in 1..Len(X.imports) :
          ~X.imports[q].relative /\ <<Head(X.imports[q].parts)>> = Y.stem

\* C25: in a finished run, when an analysed Python file X imports the module
\* of an analysed file Y, the fan-in map counts Y's stem at least once and
\* every hotspot entry for Y carries that count.
C25_ImportRaisesFanIn ==
    (run_pc = "done" /\ run_args.fault = "none") =>
        \A X, Y \in SeqRange(run_args.metas) :
            ImportsTopLevel(X, Y) =>
                LET fan_in == run_report.dep_metrics.fan_in
                IN  /\ Y.stem \in DOMAIN fan_in
                    /\ fan_in[Y.stem] >= 1
                    /\ \A q \in 1..Len(run_report.hotspots) :
                          run_report.hotspots[q].path = Y.path =>
                              run_report.hotspots[q].fan_in = fan_in[Y.stem]

-----------------------------------------------------------------------------
(* walk_repo under the default include patterns                            *)

\* the readable files with a default suffix outside the excluded
\* directories and patterns, not larger than max_bytes
ClaimedDefaultFiles(args) ==
    { f \in args.tree :
        /\ f.path.suffix \in {".py", ".js", ".ts"}
        /\ can_read(args.tree, f)
        /\ ~ExcludedDir(args, DirOf(f.path))
        /\ ~matches_any(f.path, args.exclude)
        /\ ~spec_match_file(args.has_pathspec, args.exclude, f.path)
        /\ stat_size(args.tree, f) # <<>>
        /\ stat_size(args.tree, f)[1] <= args.max_bytes }

\* C26: with the default include patterns the list walk_repo returns holds
\* every file with suffix .py, .js or .ts that is not excluded and not larger
\* than max_bytes, at every depth, the root directory included.
C26_DefaultIncludeAllDepths ==
    (fn_pc = "returned" /\ fn_in.include = DefaultInclude) =>
        \A f \in ClaimedDefaultFiles(fn_in) :
            \E x \in 1..Len(fn_out.returned) : fn_out.returned[x].path = f.path.text

-----------------------------------------------------------------------------
(* The ids of the scored findings of a report                              *)

\* C27: in a finished run no two entries of findings_scored have the same
\* id, also for a site inside a nested function and for two flagged calls
\* on one line. Ids of different categories differ by their format, so the
\* entries of one category are compared.
C27_ScoredIdsUnique ==
    run_pc = "done" =>
        \A q, x \in 1..Len(run_report.findings_scored) :
            (q # x /\ run_report.findings_scored[q].category
                        = run_report.findings_scored[x].category) =>
                run_report.findings_scored[q].id # run_report.findings_scored[x].id

\* the same for the runs without the module that holds the nested function
UniqueIdsWithoutNest ==
    (run_pc = "done" /\ \A q \in 1..Len(run_args.metas) : run_args.metas[q] # FileNest) =>
        \A q, x \in 1..Len(run_report.findings_scored) :
            (q # x /\ run_report.findings_scored[q].category
                        = run_report.findings_scored[x].category) =>
                run_report.findings_scored[q].id # run_report.findings_scored[x].id

-----------------------------------------------------------------------------
(* The threshold of detection and the threshold of scoring                 *)

\* C28: in a finished run every scored complexity finding carries the
\* threshold its value was compared against when it was detected, whatever
\* the warn_at argument and the rules are.
C28_SameThreshold ==
    run_pc = "done" =>
        LET scored == SelectSeq(run_report.findings_scored,
                                LAMBDA sf : sf.category = "complexity")
            raw == run_report.findings_raw["complexity"]
        IN  /\ Len(scored) = Len(raw)
            /\ \A q \in 1..Len(raw) :
                  /\ scored[q].id = raw[q].id
                  /\ scored[q].extra.threshold = raw[q].threshold

-----------------------------------------------------------------------------
(* Concurrent /api/analyze requests (web/service.py:41-76, web/clone.py)   *)
(* api_analyze is a plain def, so the server runs each request in a worker *)
(* thread; the requests share the directory .cqia-web-work. fn_pc maps     *)
(* each request to its position, fn_in to its body, and fn_out holds the   *)
(* directory, the target and the walk result of each request and the time. *)

MaxRequests == 2
MaxTime == 1

Requests == 1..MaxRequests
Urls == {"u", "v"}

\* dest_dir / base, or dest_dir / f"{base}-{int(time.time())}"
CloneTarget(base, stamp) == [base |-> base, stamp |-> stamp]
NoTarget == CloneTarget("", <<>>)

\* clone.py:13-18 on the urls drawn: the last path component names the
\* directory
safe_repo_dir_name(repo_url) == repo_url

Targets ==
    {CloneTarget(u, s) : u \in Urls, s \in {<<>>} \cup {<<t>> : t \in 0..MaxTime}}

\* a directory is absent, <<>>, or holds the tree that request r cloned,
\* <<r>>; <<0>> is the tree of a request that ended before
Absent == <<>>
TreeOf(r) == <<r>>

CloneInit ==
    /\ RunIdle
    /\ fn_pc = [r \in Requests |-> "shallow_clone"]
    /\ fn_in \in [Requests -> [github_url : Urls, clone_mode : {"clean", "unique"}]]
    /\ \E earlier \in SUBSET Urls :
          fn_out = [disk |-> [t \in Targets |->
                                 IF t.stamp = <<>> /\ t.base \in earlier
                                 THEN TreeOf(0) ELSE Absent],
                    target |-> [r \in Requests |-> NoTarget],
                    metas |-> [r \in Requests |-> Absent],
                    time |-> 0]
    /\ SevIdle
    /\ DupIdle
    /\ DepIdle

\* clone.py:40-48: the target is chosen by whether it exists now
CloneChoose(r) ==
    /\ fn_pc[r] = "shallow_clone"
    /\ LET base == safe_repo_dir_name(fn_in[r].github_url)
           target == CloneTarget(base, <<>>)
       IN  IF fn_out.disk[target] # Absent
           THEN IF fn_in[r].clone_mode = "unique"
                THEN /\ fn_out' = [fn_out EXCEPT
                                     !.target[r] = CloneTarget(base, <<fn_out.time>>)]
                     /\ fn_pc' = [fn_pc EXCEPT ![r] = "git_clone"]
                ELSE /\ fn_out' = [fn_out EXCEPT !.target[r] = target]
                     /\ fn_pc' = [fn_pc EXCEPT ![r] = "rmtree"]
           ELSE /\ fn_out' = [fn_out EXCEPT !.target[r] = target]
                /\ fn_pc' = [fn_pc EXCEPT ![r] = "git_clone"]
    /\ UNCHANGED <<fn_in, notFn>>

\* clone.py:20-31, 48: rmtree of the target, if it still exists
CloneRmtree(r) ==
    /\ fn_pc[r] = "rmtree"
    /\ fn_out' = [fn_out EXCEPT !.disk[fn_out.target[r]] = Absent]
    /\ fn_pc' = [fn_pc EXCEPT ![r] = "git_clone"]
    /\ UNCHANGED <<fn_in, notFn>>

\* clone.py:50-55 and service.py:43-47: git clone refuses a directory that
\* exists and is not empty, check=True raises and the request ends with 400
CloneGit(r) ==
    /\ fn_pc[r] = "git_clone"
    /\ IF fn_out.disk[fn_out.target[r]] # Absent
       THEN /\ fn_pc' = [fn_pc EXCEPT ![r] = "http_400"]
            /\ UNCHANGED fn_out
       ELSE /\ fn_out' = [fn_out EXCEPT !.disk[fn_out.target[r]] = TreeOf(r)]
            /\ fn_pc' = [fn_pc EXCEPT ![r] = "walk_repo"]
    /\ UNCHANGED <<fn_in, notFn>>

\* service.py:49-58: the walk reads what is at repo_root now; without files
\* the response is returned at once
CloneWalk(r) ==
    /\ fn_pc[r] = "walk_repo"
    /\ fn_out' = [fn_out EXCEPT !.metas[r] = fn_out.disk[fn_out.target[r]]]
    /\ fn_pc' = [fn_pc EXCEPT ![r] =
                    IF fn_out.disk[fn_out.target[r]] = Absent THEN "returned"
                    ELSE "run_analysis"]
    /\ UNCHANGED <<fn_in, notFn>>

\* service.py:60-76 and on: the report of the tree under repo_root
CloneAnalyse(r) ==
    /\ fn_pc[r] = "run_analysis"
    /\ fn_pc' = [fn_pc EXCEPT ![r] = "returned"]
    /\ UNCHANGED <<fn_in, fn_out, notFn>>

\* time.time() advances
CloneTick ==
    /\ fn_out.time < MaxTime
    /\ fn_out' = [fn_out EXCEPT !.time = fn_out.time + 1]
    /\ UNCHANGED <<fn_pc, fn_in, notFn>>

CloneNext ==
    \/ \E r \in Requests : CloneChoose(r)
    \/ \E r \in Requests : CloneRmtree(r)
    \/ \E r \in Requests : CloneGit(r)
    \/ \E r \in Requests : CloneWalk(r)
    \/ \E r \in Requests : CloneAnalyse(r)
    \/ CloneTick

SpecClone == CloneInit /\ [][CloneNext]_vars

\* C29: when the requests run in clone_mode 'clean', the tree shallow_clone
\* returned to a request is still that tree, neither deleted nor replaced,
\* as long as the request walks and analyses it.
C29_CleanRequestsDoNotInterfere ==
    (\A r \in Requests : fn_in[r].clone_mode = "clean") =>
        \A r \in Requests :
            fn_pc[r] \in {"walk_repo", "run_analysis"} =>
                fn_out.disk[fn_out.target[r]] = TreeOf(r)

-----------------------------------------------------------------------------
(* The orchestration graph (agent/graph/flow.py, agent/graph/nodes.py)     *)
(* fn_in is the state handed to graph.invoke, fn_pc the node about to run  *)
(* and fn_out the updates the nodes have returned.                         *)

\* state["path"]: the key is missing, holds None, or holds a string
PathAbsent == [present |-> FALSE, none |-> FALSE, text |-> ""]
PathNone == [present |-> TRUE, none |-> TRUE, text |-> ""]
PathStr(text) == [present |-> TRUE, none |-> FALSE, text |-> text]

\* the directories that exist; Path("") is the current directory
ExistingDirs == {"", "repo"}

\* str.lower on the modes drawn; "" stands for a missing or None mode
str_lower(mode) ==
    IF mode = "ANALYZE" THEN "analyze" ELSE IF mode = "Chat" THEN "chat" ELSE mode

GraphInputs ==
    [mode : {"", "analyze", "ANALYZE", "chat", "Chat", "fix"},
     path : {PathAbsent, PathNone, PathStr(""), PathStr("repo"), PathStr("gone")},
     question : {"", "q"},
     tree : {"empty", "sources", "malformed"}]

GraphInit ==
    /\ RunIdle
    /\ fn_pc = "START"
    /\ fn_in \in GraphInputs
    /\ fn_out = [next_action |-> "", steps |-> <<>>, messages |-> <<>>]
    /\ SevIdle
    /\ DupIdle
    /\ DepIdle

\* flow.py:22
GraphStart ==
    /\ fn_pc = "START"
    /\ fn_pc' = "guardrails"
    /\ UNCHANGED <<fn_in, fn_out, notFn>>

\* state.get("path", ""): the default only stands in for a missing key
path_or_empty(state) == IF state.path.present THEN state.path ELSE PathStr("")

\* nodes.py:30-59; Path(None) raises TypeError
guardrails(state) ==
    LET mode == str_lower(state.mode)
        steps == <<"guardrails">>
    IN  IF mode = "analyze"
        THEN IF path_or_empty(state).none
             THEN [raised |-> TRUE, next_action |-> "", steps |-> <<>>, messages |-> <<>>]
             ELSE IF path_or_empty(state).text \in ExistingDirs
             THEN [raised |-> FALSE, next_action |-> "run_analyze", steps |-> steps,
                   messages |-> <<>>]
             ELSE [raised |-> FALSE, next_action |-> "end", steps |-> steps,
                   messages |-> <<"Provided path not found; cannot analyze.">>]
        ELSE IF mode = "chat"
        THEN IF state.question # ""
             THEN [raised |-> FALSE, next_action |-> "run_chat", steps |-> steps,
                   messages |-> <<>>]
             ELSE [raised |-> FALSE, next_action |-> "end", steps |-> steps,
                   messages |-> <<"No question provided for chat mode.">>]
        ELSE [raised |-> FALSE, next_action |-> "end", steps |-> steps,
              messages |-> <<"Unsupported mode. Use 'analyze' or 'chat'.">>]

\* flow.py:8-14
route_after_guardrails(next_action) ==
    LET nxt == IF next_action = "" THEN "end" ELSE next_action
    IN  IF nxt = "run_analyze" THEN "analyze_node"
        ELSE IF nxt = "run_chat" THEN "chat_node"
        ELSE "END"

\* flow.py:23-27: the node and the conditional edge after it
Guardrails ==
    /\ fn_pc = "guardrails"
    /\ LET upd == guardrails(fn_in)
       IN  IF upd.raised
           THEN /\ fn_pc' = "raised"
                /\ UNCHANGED fn_out
           ELSE /\ fn_out' = [next_action |-> upd.next_action, steps |-> upd.steps,
                              messages |-> upd.messages]
                /\ fn_pc' = route_after_guardrails(upd.next_action)
    /\ UNCHANGED <<fn_in, notFn>>

\* nodes.py:62-120 and flow.py:28: state["path"] raises KeyError without the
\* key; without files the node returns early; run_analysis raises on a file
\* ast.parse rejects
AnalyzeNode ==
    /\ fn_pc = "analyze_node"
    /\ IF ~fn_in.path.present \/ fn_in.tree = "malformed"
       THEN /\ fn_pc' = "raised"
            /\ UNCHANGED fn_out
       ELSE /\ fn_out' = [next_action |-> "end",
                          steps |-> Append(fn_out.steps, "analyze"),
                          messages |-> Append(fn_out.messages,
                              IF fn_in.tree = "empty"
                              THEN "No files matched include/exclude filters."
                              ELSE "Wrote analysis to reports")]
            /\ fn_pc' = "END"
    /\ UNCHANGED <<fn_in, notFn>>

\* nodes.py:123-152 and flow.py:29
ChatNode ==
    /\ fn_pc = "chat_node"
    /\ fn_out' = [next_action |-> "end", steps |-> Append(fn_out.steps, "chat"),
                  messages |-> Append(fn_out.messages, "Top matches")]
    /\ fn_pc' = "END"
    /\ UNCHANGED <<fn_in, notFn>>

GraphNext ==
    \/ GraphStart
    \/ Guardrails
    \/ AnalyzeNode
    \/ ChatNode

SpecGraph == GraphInit /\ [][GraphNext]_vars

\* the node has been entered
Entered(node, step) == fn_pc = node \/ step \in SeqRange(fn_out.steps)

\* the state supplies a path that exists on disk
SuppliesExistingPath(state) ==
    state.path.present /\ ~state.path.none /\ state.path.text \in ExistingDirs

AnalyzeAllowed(state) == str_lower(state.mode) = "analyze" /\ SuppliesExistingPath(state)
ChatAllowed(state) == str_lower(state.mode) = "chat" /\ state.question # ""

\* C30: analyze_node is entered only for mode 'analyze' with a supplied path
\* that exists, chat_node only for mode 'chat' with a non-empty question; in
\* every other case the run is at END after guardrails alone, with one
\* message; no run enters both nodes, and no run stops short of END.
C30_GuardedRouting ==
    /\ Entered("analyze_node", "analyze") => AnalyzeAllowed(fn_in)
    /\ Entered("chat_node", "chat") => ChatAllowed(fn_in)
    /\ ~(Entered("analyze_node", "analyze") /\ Entered("chat_node", "chat"))
    /\ (fn_pc \notin {"START", "guardrails"}
            /\ ~AnalyzeAllowed(fn_in) /\ ~ChatAllowed(fn_in)) =>
          /\ fn_pc = "END"
          /\ fn_out.steps = <<"guardrails">>
          /\ Len(fn_out.messages) = 1
    /\ fn_pc # "raised"

====
